---- MODULE Spec2Model ----
(***************************************************************************)
(* Decoded picture buffer of the JM H.264 decoder (ldecod): capacity       *)
(* policy (getDpbSize), pool lifecycle (init_dpb / free_dpb), frame store  *)
(* and storable picture allocation, and the error routine they rely on.    *)
(***************************************************************************)
EXTENDS Integers, Sequences, FiniteSets, TLC

VARIABLES p_Vid, p_Inp, p_Dpb, heap, pc, stderr, retval, last_call, hist

vars == <<p_Vid, p_Inp, p_Dpb, heap, pc, stderr, retval, last_call, hist>>

(***************************************************************************)
(* Bounds of the model                                                     *)
(***************************************************************************)
MaxLog2Width == 13
MaxSmallVui == 2
MaxNumViews == 3
MaxDpbPlus == 1
MaxSentinelAllocs == 3
MaxPictureInits == 1
MaxFailAt == 18
MaxDecodeRet == 64

(***************************************************************************)
(* Program constants                                                       *)
(***************************************************************************)
NULL == 0
INT_MIN ==
  (-2147483647) - 1

FREXT_HP == 100
FREXT_CAVLC444 == 44
MVC_HIGH == 118
STEREO_HIGH == 128
BASELINE == 66
YUV400 == 0
YUV420 == 1
FRAME == 0
TOP_FIELD == 1
BOTTOM_FIELD == 2
MAX_PLANE == 3
MVC_INIT_VIEW_ID == -1
MVC_EXTENSION_ENABLE == 1
MAX_NUM_DPB_LAYERS == 2
MAX_LIST_SIZE == 33
MAX_NUM_SLICES == 50
BLOCK_SHIFT == 2

(***************************************************************************)
(* Small helpers of the decoder                                            *)
(***************************************************************************)
imin(a, b) ==
  IF a < b THEN a ELSE b

imax(a, b) ==
  IF a > b THEN a ELSE b

is_FREXT_profile(profile_idc) ==
  profile_idc >= FREXT_HP \/ profile_idc = FREXT_CAVLC444

Pow2(k) ==
  2 ^ k

RECURSIVE RoundLog2Loop(_, _)
RoundLog2Loop(iRet, iValue_square) ==
  IF Pow2(iRet + 1) <= iValue_square
    THEN RoundLog2Loop(iRet + 1, iValue_square)
    ELSE iRet

RoundLog2(iValue) ==
  (RoundLog2Loop(0, iValue * iValue) + 1) \div 2

(***************************************************************************)
(* The machine: the decoder state threaded through one call.               *)
(*   vid  : VideoParameters      inp : InputParameters                     *)
(*   dpb  : the DPB layers       heap: live heap blocks                    *)
(*   pc   : "running" | "exited" | "crashed"                               *)
(*   err  : messages written to stderr by the current call                 *)
(*   hist : allocation history: what was freed twice or read after free,  *)
(*          the sentinel allocations and frees, the stale addresses        *)
(*          the pictures alloc_storable_picture returned (returned) and    *)
(*          the addresses released while not live (twice) in the last      *)
(*          call, whether an allocation failed (oom)                       *)
(*   ora  : how this call resolves undefined / implementation-defined      *)
(*          behaviour, and which of its allocations fails (fail, 0 = none) *)
(*   nalloc : the allocations the call has made so far                     *)
(***************************************************************************)

\* error(text, code): prints the text; the exit(code) call is commented out,
\* so control returns to the caller.
error(m, text, code) ==
  [m EXCEPT !.err = @ \cup {text}]

\* error_KeyGen(text, code): prints the text and exits the process.
error_KeyGen(m, text, code) ==
  [m EXCEPT !.err = @ \cup {text}, !.pc = "exited"]

(***************************************************************************)
(* Capacity policy                                                         *)
(***************************************************************************)
LevelCodes ==
  {0, 9, 10, 11, 12, 13, 20, 21, 22, 30, 31, 32, 40, 41, 42, 50, 51, 52, 60, 61, 62}

\* the switch of getDpbSize: the MaxDpbMbs budget of a level other than 0
LevelBudget(active_sps) ==
  CASE active_sps.level_idc = 9  -> 396
    [] active_sps.level_idc = 10 -> 396
    [] active_sps.level_idc = 11 ->
         IF ~is_FREXT_profile(active_sps.profile_idc) /\ active_sps.constrained_set3_flag = 1
           THEN 396 ELSE 900
    [] active_sps.level_idc = 12 -> 2376
    [] active_sps.level_idc = 13 -> 2376
    [] active_sps.level_idc = 20 -> 2376
    [] active_sps.level_idc = 21 -> 4752
    [] active_sps.level_idc = 22 -> 8100
    [] active_sps.level_idc = 30 -> 8100
    [] active_sps.level_idc = 31 -> 18000
    [] active_sps.level_idc = 32 -> 20480
    [] active_sps.level_idc = 40 -> 32768
    [] active_sps.level_idc = 41 -> 32768
    [] active_sps.level_idc = 42 -> 34816
    [] active_sps.level_idc = 50 -> 110400
    [] active_sps.level_idc = 51 -> 184320
    [] active_sps.level_idc = 52 -> 184320
    [] active_sps.level_idc \in {60, 61, 62} -> 696320
    [] OTHER -> 0

PicSizeMb(active_sps) ==
  (active_sps.pic_width_in_mbs_minus1 + 1)
    * (active_sps.pic_height_in_map_units_minus1 + 1)
    * (IF active_sps.frame_mbs_only_flag # 0 THEN 1 ELSE 2)

IsMultiview(vid) ==
  MVC_EXTENSION_ENABLE = 1 /\ vid.profile_idc \in {MVC_HIGH, STEREO_HIGH}

\* a capacity policy that forgets the single-view clip to 16
TableSize_unclipped(vid, active_sps) ==
  LET size == LevelBudget(active_sps) \div PicSizeMb(active_sps)
      num_views == vid.active_subset_sps.num_views_minus1 + 1
  IN  IF IsMultiview(vid)
        THEN imin(2 * size, imax(1, RoundLog2(num_views)) * 16) \div num_views
        ELSE size

\* a capacity policy that treats every profile as single-view
TableSize_single_view(vid, active_sps) ==
  LET size == LevelBudget(active_sps) \div PicSizeMb(active_sps)
  IN  imin(size, 16)

\* a capacity policy that divides the budget by the picture width alone
TableSize_by_width(vid, active_sps) ==
  LET size == LevelBudget(active_sps) \div (active_sps.pic_width_in_mbs_minus1 + 1)
      num_views == vid.active_subset_sps.num_views_minus1 + 1
  IN  IF IsMultiview(vid)
        THEN imin(2 * size, imax(1, RoundLog2(num_views)) * 16) \div num_views
        ELSE imin(size, 16)

\* size after the division and the multiview / single-view bounding
TableSize(vid, active_sps) ==
  LET size == LevelBudget(active_sps) \div PicSizeMb(active_sps)
      num_views == vid.active_subset_sps.num_views_minus1 + 1
  IN  IF IsMultiview(vid)
        THEN imin(2 * size, imax(1, RoundLog2(num_views)) * 16) \div num_views
        ELSE imin(size, 16)

VuiRestricted(active_sps) ==
  active_sps.vui_parameters_present_flag # 0
    /\ active_sps.vui_seq_parameters.bitstream_restriction_flag # 0

\* an override taken as it is, without the lower bound of 1
VuiSize_unclamped(max_dec_frame_buffering) ==
  max_dec_frame_buffering

\* size_vui = imax (1, max_dec_frame_buffering)
VuiSize(max_dec_frame_buffering) ==
  imax(1, max_dec_frame_buffering)

\* getDpbSize: returns [ret |-> the size, m |-> the machine after the call]
getDpbSize(m, active_sps) ==
  LET recognised == active_sps.level_idc \in LevelCodes
      m1 == IF recognised THEN m ELSE error(m, "undefined level", 500)
      size == TableSize(m.vid, active_sps)
      mdfb == active_sps.vui_seq_parameters.max_dec_frame_buffering
      m2 == IF VuiRestricted(active_sps) /\ mdfb > size
              THEN error(m1, "max_dec_frame_buffering larger than MaxDpbSize", 500)
              ELSE m1
      size_vui == VuiSize(mdfb)
  IN  IF active_sps.level_idc = 0
        THEN [ret |-> 16, m |-> m]
        ELSE [ret |-> IF VuiRestricted(active_sps) THEN size_vui ELSE size, m |-> m2]

(***************************************************************************)
(* Heap.  A pointer is an address (NULL = 0); heap maps the live addresses *)
(* to their blocks.  malloc hands out the smallest address that is neither *)
(* live nor still held by some (dangling) pointer, so a stale pointer      *)
(* never aliases a newer block.                                            *)
(***************************************************************************)
SetOfSeq(s) ==
  {s[i] : i \in DOMAIN s}

\* the pointers stored in one heap block
BlockPtrs(b) ==
  CASE b.kind = "array" -> SetOfSeq(b.elems)
    [] b.kind = "FrameStore" -> {b.frame, b.top_field, b.bottom_field}
    [] b.kind = "StorablePicture" ->
         {b.frame, b.top_field, b.bottom_field, b.imgY, b.imgUV, b.mv_info,
          b.motion.mb_field, b.tone_mapping_lut}
           \cup SetOfSeq(b.JVmv_info)
           \cup {b.JVmotion[i].mb_field : i \in DOMAIN b.JVmotion}
           \cup {b.listX[k] : k \in DOMAIN b.listX}
    [] OTHER -> {}

DpbPtrs(d) ==
  {d.fs, d.fs_ref, d.fs_ltref, d.fs_ilref, d.last_picture}

Pointers(m) ==
  ({m.vid.no_reference_picture, m.vid.last_out_fs, m.vid.dec_picture}
     \cup UNION {DpbPtrs(m.dpb[l]) : l \in DOMAIN m.dpb}
     \cup UNION {BlockPtrs(m.heap[a]) : a \in DOMAIN m.heap}) \ {NULL}

\* the lowest address from a on that is not in used
FirstUnused(used, a) ==
  CHOOSE b \in a..(a + Cardinality(used)) :
    b \notin used /\ \A c \in a..(b - 1) : c \in used

\* m.hist.stale: the freed addresses that some pointer may still hold
Fresh(m) ==
  FirstUnused(DOMAIN m.heap \cup m.hist.stale, 1)

Live(m, p) ==
  p \in DOMAIN m.heap

\* malloc/calloc of one block with content blk: null when this is the
\* allocation of the call that fails (m.ora.fail)
Alloc(m, blk) ==
  IF m.ora.fail = m.nalloc + 1
    THEN [ptr |-> NULL, m |-> [m EXCEPT !.nalloc = @ + 1, !.hist.oom = TRUE]]
    ELSE LET a == Fresh(m)
         IN  [ptr |-> a, m |-> [m EXCEPT !.heap = (a :> blk) @@ m.heap,
                                         !.nalloc = @ + 1]]

\* free(p): releasing a block that is not live is undefined behaviour; the
\* allocator either aborts the process or lets the call pass (m.ora.ub).
free(m, p) ==
  IF p = NULL THEN m
  ELSE IF Live(m, p)
    THEN [m EXCEPT !.heap = [a \in (DOMAIN m.heap) \ {p} |-> m.heap[a]],
                   !.hist.stale = @ \cup {p}]
    ELSE [m EXCEPT !.hist.double_free = TRUE,
                   !.hist.twice = @ \cup {p},
                   !.pc = IF m.ora.ub = "abort" THEN "crashed" ELSE @]

\* a read through a pointer to freed memory: undefined behaviour as well
StaleRead(m) ==
  [m EXCEPT !.hist.use_after_free = TRUE,
            !.pc = IF m.ora.ub = "abort" THEN "crashed" ELSE @]

\* a read or write through a null pointer ends the process
NullDeref(m) ==
  [m EXCEPT !.pc = "crashed"]

\* v is evaluated once and F applied to its value
Bind(v, F(_)) ==
  CHOOSE r \in {F(x) : x \in {v}} : TRUE

\* sequencing: stmt is what the next statement makes of m, if m still runs
Then(m, stmt(_)) ==
  Bind(m, LAMBDA x : IF x.pc = "running" THEN stmt(x) ELSE x)

\* no_mem_exit(where): out of memory is fatal, the session is aborted
no_mem_exit(m, where) ==
  [m EXCEPT !.err = @ \cup {where}, !.pc = "exited"]

\* calloc(n, sizeof(FrameStore*)): an array of n null pointers.  Unsigned
\* counts are kept as the two's complement integer of the same 32 bits, so
\* n < 0 stands for the count n + 2^32 >= 2^31, which no allocation can
\* serve; a count of 0 returns null or a unique pointer, as the C library
\* chooses (m.ora.calloc0).
calloc_array(m, n) ==
  IF n < 0 \/ (n = 0 /\ m.ora.calloc0 = "null")
    THEN [ptr |-> NULL, m |-> m]
    ELSE Alloc(m, [kind |-> "array", elems |-> [i \in 1..n |-> NULL]])

(***************************************************************************)
(* Frame stores and storable pictures                                      *)
(***************************************************************************)
\* the frame store alloc_frame_store builds: calloc zeroes it, the flags
\* and the three attachments are then set
FrameStore(is_output) ==
  [kind |-> "FrameStore",
   is_used |-> 0, is_reference |-> 0, is_long_term |-> 0,
   is_orig_reference |-> 0, is_output |-> is_output,
   frame |-> NULL, top_field |-> NULL, bottom_field |-> NULL,
   poc |-> 0, layer_id |-> 0, view_id |-> 0,
   inter_view_flag |-> <<0, 0>>, anchor_pic_flag |-> <<0, 0>>]

\* the statements after a no_mem_exit that came back would write through
\* the null pointer
AfterNoMemExit(m) ==
  Then(m, LAMBDA x : NullDeref(x))

\* a frame store that comes out of the allocator marked as output
alloc_frame_store_dirty(m) ==
  Bind(Alloc(m, FrameStore(1)), LAMBDA a :
    IF a.ptr = NULL
      THEN [ptr |-> NULL,
            m |-> AfterNoMemExit(no_mem_exit(a.m, "alloc_frame_store: f"))]
      ELSE a)

\* an alloc_frame_store that does not test what calloc returned
alloc_frame_store_unchecked(m) ==
  Bind(Alloc(m, FrameStore(0)), LAMBDA a :
    IF a.ptr = NULL
      THEN [ptr |-> NULL, m |-> NullDeref(a.m)]
      ELSE a)

\* alloc_frame_store: returns [ptr, m]
alloc_frame_store(m) ==
  Bind(Alloc(m, FrameStore(0)), LAMBDA a :
    IF a.ptr = NULL
      THEN [ptr |-> NULL,
            m |-> AfterNoMemExit(no_mem_exit(a.m, "alloc_frame_store: f"))]
      ELSE a)

\* get_mem2Dpel_pad, get_mem3Dpel_pad, get_mem2Dmp, calloc of mb_field and
\* of a reference list: one buffer of the given use and dimensions
get_mem(m, what, rows, cols) ==
  Bind(Alloc(m, [kind |-> "buf", what |-> what, rows |-> rows, cols |-> cols]), LAMBDA a :
    IF a.ptr = NULL
      THEN [ptr |-> NULL, m |-> no_mem_exit(a.m, what)]
      ELSE a)

\* alloc_pic_motion on the motion record of picture s (plane 0 = motion,
\* planes 1..MAX_PLANE = JVmotion[plane - 1])
alloc_pic_motion(m, s, plane, size_y, size_x) ==
  Bind(Alloc(m, [kind |-> "buf", what |-> "mb_field",
                 rows |-> size_y, cols |-> size_x]), LAMBDA a :
  Bind(IF plane = 0
         THEN [a.m EXCEPT !.heap[s].motion.mb_field = a.ptr]
         ELSE [a.m EXCEPT !.heap[s].JVmotion[plane].mb_field = a.ptr], LAMBDA m1 :
  IF a.ptr = NULL
    THEN no_mem_exit(m1, "alloc_storable_picture: motion->mb_field")
    ELSE m1))

\* get_mem2Dpel_pad, get_mem3Dpel_pad or get_mem2Dmp on the pointer field
\* f of picture s
get_mem_field(m, s, f, rows, cols) ==
  Bind(get_mem(m, f, rows, cols), LAMBDA a :
    Then(a.m, LAMBDA x : [x EXCEPT !.heap[s][f] = a.ptr]))

\* the body of the nplane loop of alloc_storable_picture
alloc_JV_plane(m, s, nplane, rows, cols) ==
  Then(Bind(get_mem(m, "JVmv_info", rows, cols), LAMBDA a :
         Then(a.m, LAMBDA x : [x EXCEPT !.heap[s].JVmv_info[nplane] = a.ptr])),
       LAMBDA x : alloc_pic_motion(x, s, nplane, rows, cols))

\* the nplane loop of alloc_storable_picture
RECURSIVE alloc_JV_planes(_, _, _, _, _)
alloc_JV_planes(m, s, nplane, rows, cols) ==
  IF nplane > MAX_PLANE \/ m.pc # "running" THEN m
  ELSE Bind(alloc_JV_plane(m, s, nplane, rows, cols), LAMBDA m1 :
         alloc_JV_planes(m1, s, nplane + 1, rows, cols))

\* the body of the j/i loops of alloc_storable_picture for listX[j][i],
\* k = 2*j + i
alloc_listX_entry(m, s, k) ==
  Bind(Alloc(m, [kind |-> "buf", what |-> "listX",
                 rows |-> 1, cols |-> MAX_LIST_SIZE]), LAMBDA a :
    IF a.ptr = NULL
      THEN no_mem_exit(a.m, "alloc_storable_picture: s->listX[i]")
      ELSE [a.m EXCEPT !.heap[s].listX = (k :> a.ptr) @@ @])

\* the iterations lo..hi of the j/i loops of alloc_storable_picture, in
\* order: those of the lower half, then those of the upper half
RECURSIVE alloc_listX_range(_, _, _, _)
alloc_listX_range(m, s, lo, hi) ==
  IF lo > hi \/ m.pc # "running" THEN m
  ELSE IF lo = hi THEN alloc_listX_entry(m, s, lo)
  ELSE Bind(alloc_listX_range(m, s, lo, (lo + hi) \div 2), LAMBDA m1 :
         alloc_listX_range(m1, s, (lo + hi) \div 2 + 1, hi))

\* the j/i loops of alloc_storable_picture over listX[j][i]
alloc_listX(m, s) ==
  alloc_listX_range(m, s, 0, 2 * MAX_NUM_SLICES - 1)

\* structure pointers left as calloc zeroed them
structure_pointer_unset(vid) ==
  NULL

\* s->top_field = s->bottom_field = s->frame = p_Vid->no_reference_picture
structure_pointer(vid) ==
  vid.no_reference_picture

\* the zeroed picture record and the defaults alloc_storable_picture stores
StorablePicture(vid, structure, size_x, size_y, size_x_cr, size_y_cr) ==
  [kind |-> "StorablePicture", structure |-> structure,
   PicSizeInMbs |-> (size_x * size_y) \div 256,
   imgY |-> NULL, imgUV |-> NULL, mv_info |-> NULL,
   motion |-> [mb_field |-> NULL],
   JVmv_info |-> [i \in 1..MAX_PLANE |-> NULL],
   JVmotion |-> [i \in 1..MAX_PLANE |-> [mb_field |-> NULL]],
   listX |-> <<>>,
   separate_colour_plane_flag |-> vid.separate_colour_plane_flag,
   pic_num |-> 0, frame_num |-> 0,
   long_term_frame_idx |-> 0, long_term_pic_num |-> 0,
   used_for_reference |-> 0, is_long_term |-> 0,
   non_existing |-> 0, is_output |-> 0, max_slice_id |-> 0,
   view_id |-> IF MVC_EXTENSION_ENABLE = 1 THEN -1 ELSE 0,
   size_x |-> size_x, size_y |-> size_y,
   size_x_cr |-> size_x_cr, size_y_cr |-> size_y_cr,
   top_field |-> structure_pointer(vid),
   bottom_field |-> structure_pointer(vid),
   frame |-> structure_pointer(vid),
   coded_frame |-> 0, mb_aff_frame_flag |-> 0,
   top_poc |-> 0, bottom_poc |-> 0, poc |-> 0,
   seiHasTone_mapping |-> 0, tone_mapping_lut |-> NULL]

\* what the caller of alloc_storable_picture receives: the picture, its
\* three structure pointers and p_Vid->no_reference_picture at the return
Returned(m, s) ==
  [ptr |-> s, frame |-> m.heap[s].frame, top_field |-> m.heap[s].top_field,
   bottom_field |-> m.heap[s].bottom_field,
   no_reference_picture |-> m.vid.no_reference_picture]

\* the statements of alloc_storable_picture after the calloc of s
fill_storable_picture(m, s, structure, size_x, size_y, size_x_cr, size_y_cr) ==
  LET rows == size_y \div (2 ^ BLOCK_SHIFT)
      cols == size_x \div (2 ^ BLOCK_SHIFT)
  IN
    Then(Then(Then(Then(Then(Then(Then(m,
      LAMBDA x : get_mem_field(x, s, "imgY", size_y, size_x)),
      LAMBDA x : IF x.vid.active_sps.chroma_format_idc # YUV400
                   THEN get_mem_field(x, s, "imgUV", size_y_cr, size_x_cr)
                   ELSE x),
      LAMBDA x : get_mem_field(x, s, "mv_info", rows, cols)),
      LAMBDA x : alloc_pic_motion(x, s, 0, rows, cols)),
      LAMBDA x : IF x.vid.separate_colour_plane_flag # 0
                   THEN alloc_JV_planes(x, s, 1, rows, cols)
                   ELSE x),
      LAMBDA x : IF x.vid.active_sps.frame_mbs_only_flag = 0 /\ structure # FRAME
                   THEN alloc_listX(x, s)
                   ELSE x),
      LAMBDA x : [x EXCEPT !.hist.returned = @ \cup {Returned(x, s)}])

\* alloc_storable_picture: returns [ptr, m]
\* an alloc_storable_picture that stores its is_output argument
alloc_storable_picture_flagged(m, structure, size_x, size_y0, size_x_cr, size_y_cr0, is_output) ==
  LET size_y     == IF structure # FRAME THEN size_y0 \div 2 ELSE size_y0
      size_y_cr  == IF structure # FRAME THEN size_y_cr0 \div 2 ELSE size_y_cr0
  IN
    Bind(Alloc(m, [StorablePicture(m.vid, structure, size_x, size_y, size_x_cr, size_y_cr)
                     EXCEPT !.is_output = is_output]),
         LAMBDA shell :
      IF shell.ptr = NULL
        THEN [ptr |-> NULL,
              m |-> AfterNoMemExit(no_mem_exit(shell.m, "alloc_storable_picture: s"))]
        ELSE [ptr |-> shell.ptr,
              m |-> fill_storable_picture(shell.m, shell.ptr, structure,
                                          size_x, size_y, size_x_cr, size_y_cr)])

\* an alloc_storable_picture that sizes a field like a frame
alloc_storable_picture_unhalved(m, structure, size_x, size_y0, size_x_cr, size_y_cr0, is_output) ==
  Bind(Alloc(m, StorablePicture(m.vid, structure, size_x, size_y0, size_x_cr, size_y_cr0)),
       LAMBDA shell :
    IF shell.ptr = NULL
      THEN [ptr |-> NULL,
            m |-> AfterNoMemExit(no_mem_exit(shell.m, "alloc_storable_picture: s"))]
      ELSE [ptr |-> shell.ptr,
            m |-> fill_storable_picture(shell.m, shell.ptr, structure,
                                        size_x, size_y0, size_x_cr, size_y_cr0)])

alloc_storable_picture(m, structure, size_x, size_y0, size_x_cr, size_y_cr0, is_output) ==
  LET size_y     == IF structure # FRAME THEN size_y0 \div 2 ELSE size_y0
      size_y_cr  == IF structure # FRAME THEN size_y_cr0 \div 2 ELSE size_y_cr0
  IN
    Bind(Alloc(m, StorablePicture(m.vid, structure, size_x, size_y, size_x_cr, size_y_cr)),
         LAMBDA shell :
      IF shell.ptr = NULL
        THEN [ptr |-> NULL,
              m |-> AfterNoMemExit(no_mem_exit(shell.m, "alloc_storable_picture: s"))]
        ELSE [ptr |-> shell.ptr,
              m |-> fill_storable_picture(shell.m, shell.ptr, structure,
                                          size_x, size_y, size_x_cr, size_y_cr)])

\* a free_pic_motion that leaves mb_field allocated
free_pic_motion_leaky(m, p, plane) ==
  m

\* free_pic_motion on plane 0 (motion) or 1..MAX_PLANE (JVmotion) of p
free_pic_motion(m, p, plane) ==
  Bind(IF plane = 0 THEN m.heap[p].motion.mb_field
                    ELSE m.heap[p].JVmotion[plane].mb_field, LAMBDA mb_field :
    IF mb_field = NULL THEN m
    ELSE Then(free(m, mb_field), LAMBDA m1 :
           IF plane = 0
             THEN [m1 EXCEPT !.heap[p].motion.mb_field = NULL]
             ELSE [m1 EXCEPT !.heap[p].JVmotion[plane].mb_field = NULL]))

\* the body of the nplane loop of free_storable_picture
free_JV_plane(m, p, nplane) ==
  Then(IF m.heap[p].JVmv_info[nplane] = NULL THEN m
       ELSE Then(free(m, m.heap[p].JVmv_info[nplane]), LAMBDA x :
              [x EXCEPT !.heap[p].JVmv_info[nplane] = NULL]),
       LAMBDA x : free_pic_motion(x, p, nplane))

\* the nplane loop of free_storable_picture
RECURSIVE free_JV_planes(_, _, _)
free_JV_planes(m, p, nplane) ==
  IF nplane > MAX_PLANE \/ m.pc # "running" THEN m
  ELSE Bind(free_JV_plane(m, p, nplane), LAMBDA m1 :
         free_JV_planes(m1, p, nplane + 1))

\* free of one pointer field f of picture p, followed by p->f = NULL
free_field(m, p, f) ==
  IF m.heap[p][f] = NULL THEN m
  ELSE Then(free(m, m.heap[p][f]), LAMBDA m1 : [m1 EXCEPT !.heap[p][f] = NULL])

\* the body of the j/i loops of free_storable_picture for a non-null
\* listX[j][i], k = 2*j + i: free and set to null (absent from listX)
free_listX_entry(m, p, k) ==
  Then(free(m, m.heap[p].listX[k]), LAMBDA m1 :
    [m1 EXCEPT !.heap[p].listX = [j \in (DOMAIN @) \ {k} |-> @[j]]])

\* the iterations lo..hi of the j/i loops of free_storable_picture, in
\* order; the entries that are null are skipped
RECURSIVE free_listX_range(_, _, _, _)
free_listX_range(m, p, lo, hi) ==
  IF lo > hi \/ m.pc # "running" THEN m
  ELSE IF lo = hi
    THEN IF lo \in DOMAIN m.heap[p].listX THEN free_listX_entry(m, p, lo) ELSE m
  ELSE Bind(free_listX_range(m, p, lo, (lo + hi) \div 2), LAMBDA m1 :
         free_listX_range(m1, p, (lo + hi) \div 2 + 1, hi))

\* the j/i loops of free_storable_picture over listX[j][i]
free_listX(m, p) ==
  free_listX_range(m, p, 0, 2 * MAX_NUM_SLICES - 1)

\* free_storable_picture(p)
free_storable_picture(m, p) ==
  IF p = NULL THEN m
  ELSE IF ~Live(m, p)
    THEN Then(StaleRead(m), LAMBDA x : free(x, p))
    ELSE
      Then(Then(Then(Then(Then(Then(Then(free_field(m, p, "mv_info"),
        LAMBDA x : free_pic_motion(x, p, 0)),
        LAMBDA x : IF x.heap[p].separate_colour_plane_flag # 0
                     THEN free_JV_planes(x, p, 1) ELSE x),
        LAMBDA x : free_field(x, p, "imgY")),
        LAMBDA x : free_field(x, p, "imgUV")),
        LAMBDA x : IF x.heap[p].seiHasTone_mapping # 0
                     THEN free(x, x.heap[p].tone_mapping_lut) ELSE x),
        LAMBDA x : free_listX(x, p)),
        LAMBDA x : free(x, p))

\* free of one attached picture f->field, followed by f->field = NULL
free_attached(m, f, field) ==
  IF m.heap[f][field] = NULL THEN m
  ELSE Then(free_storable_picture(m, m.heap[f][field]), LAMBDA m1 :
         [m1 EXCEPT !.heap[f][field] = NULL])

\* a free_frame_store that leaves the bottom field behind
free_frame_store_no_bottom(m, f) ==
  IF f = NULL THEN m
  ELSE IF ~Live(m, f)
    THEN Then(StaleRead(m), LAMBDA x : free(x, f))
    ELSE
      Then(Then(free_attached(m, f, "frame"),
        LAMBDA x : free_attached(x, f, "top_field")),
        LAMBDA x : free(x, f))

\* free_frame_store(f)
free_frame_store(m, f) ==
  IF f = NULL THEN m
  ELSE IF ~Live(m, f)
    THEN Then(StaleRead(m), LAMBDA x : free(x, f))
    ELSE
      Then(Then(Then(free_attached(m, f, "frame"),
        LAMBDA x : free_attached(x, f, "top_field")),
        LAMBDA x : free_attached(x, f, "bottom_field")),
        LAMBDA x : free(x, f))

(***************************************************************************)
(* DPB lifecycle                                                           *)
(***************************************************************************)
\* the loop of free_dpb over fs[i], i = 1..size (1-based in the model)
RECURSIVE free_dpb_stores(_, _, _, _)
free_dpb_stores(m, arr, i, size) ==
  IF i > size \/ m.pc # "running" THEN m
  ELSE Bind(free_frame_store(m, m.heap[arr].elems[i]), LAMBDA m1 :
         free_dpb_stores(m1, arr, i + 1, size))

\* the frame stores of p_Dpb->fs and the array itself, freed and cleared
free_dpb_fs(m, l) ==
  Then(Then(free_dpb_stores(m, m.dpb[l].fs, 1, m.dpb[l].size),
    LAMBDA x : free(x, x.dpb[l].fs)),
    LAMBDA x : [x EXCEPT !.dpb[l].fs = NULL])

\* the frame store of p_Dpb->fs_ilref and the array itself, freed and cleared
free_dpb_fs_ilref(m, l) ==
  Then(Then(free_frame_store(m, m.heap[m.dpb[l].fs_ilref].elems[1]),
    LAMBDA x : free(x, x.dpb[l].fs_ilref)),
    LAMBDA x : [x EXCEPT !.dpb[l].fs_ilref = NULL])

\* the release of the sentinel at the end of free_dpb
free_dpb_sentinel(m) ==
  Then(free_storable_picture(m, m.vid.no_reference_picture), LAMBDA x :
    [x EXCEPT !.vid.no_reference_picture = NULL,
              !.hist.sentinel_frees = @ + 1])

\* free_dpb(p_Dpb), p_Dpb = layer l
free_dpb(m, l) ==
  Then(Then(Then(Then(Then(Then(Then(Then(m,
    LAMBDA x : IF x.dpb[l].fs # NULL THEN free_dpb_fs(x, l) ELSE x),
    LAMBDA x : free(x, x.dpb[l].fs_ref)),
    LAMBDA x : free(x, x.dpb[l].fs_ltref)),
    LAMBDA x : IF MVC_EXTENSION_ENABLE = 1 /\ x.dpb[l].fs_ilref # NULL
                 THEN free_dpb_fs_ilref(x, l) ELSE x),
    LAMBDA x : IF MVC_EXTENSION_ENABLE = 1
                 THEN [x EXCEPT !.dpb[l].last_output_view_id = -1] ELSE x),
    LAMBDA x : [x EXCEPT !.dpb[l].last_output_poc = INT_MIN,
                         !.dpb[l].init_done = 0,
                         !.hist.top = INT_MIN]),
    \* p_Vid = p_Dpb->p_Vid is first dereferenced here
    LAMBDA x : IF x.dpb[l].p_Vid = "NULL" THEN NullDeref(x)
               ELSE IF x.vid.conceal_mode # 0 \/ x.vid.last_out_fs # NULL
                 THEN free_frame_store(x, x.vid.last_out_fs)
                 ELSE x),
    LAMBDA x : IF x.vid.no_reference_picture # NULL
                 THEN free_dpb_sentinel(x) ELSE x)

\* an adjustment index that takes DPBPLUS1 for the base layer
DpbPlusIndex_swapped(type) ==
  IF type = 2 THEN 1 ELSE 2

\* dpb_plus[type==2? 1: 0], 1-based in the model
DpbPlusIndex(type) ==
  IF type = 2 THEN 2 ELSE 1

\* a sentinel allocated by every init_dpb
NeedSentinel_always(vid) ==
  TRUE

\* if(!p_Vid->no_reference_picture)
NeedSentinel(vid) ==
  vid.no_reference_picture = NULL

\* the body of the first loop of init_dpb for index i
init_dpb_store(m, l, i) ==
  Bind(alloc_frame_store(m), LAMBDA f :
  Then(f.m, LAMBDA m0 :
  Bind([m0 EXCEPT
          !.heap[m.dpb[l].fs].elems[i] = f.ptr,
          !.heap[m.dpb[l].fs_ref].elems[i] = NULL,
          !.heap[m.dpb[l].fs_ltref].elems[i] = NULL,
          !.heap[f.ptr].layer_id = MVC_INIT_VIEW_ID], LAMBDA m1 :
  IF MVC_EXTENSION_ENABLE = 1
    THEN [m1 EXCEPT !.heap[f.ptr].view_id = MVC_INIT_VIEW_ID,
                    !.heap[f.ptr].inter_view_flag = <<0, 0>>,
                    !.heap[f.ptr].anchor_pic_flag = <<0, 0>>]
    ELSE m1)))

\* the first loop of init_dpb, i = 1..size
RECURSIVE init_dpb_stores(_, _, _)
init_dpb_stores(m, l, i) ==
  IF i > m.dpb[l].size \/ m.pc # "running" THEN m
  ELSE Bind(init_dpb_store(m, l, i), LAMBDA m1 : init_dpb_stores(m1, l, i + 1))

\* calloc of one of the index arrays into field f of layer l, with the
\* no_mem_exit of init_dpb on failure
init_dpb_array(m, l, f, n, where) ==
  Bind(calloc_array(m, n), LAMBDA a :
  Bind([a.m EXCEPT !.dpb[l][f] = a.ptr], LAMBDA m1 :
  IF a.ptr = NULL THEN no_mem_exit(m1, where) ELSE m1))

\* a sentinel whose three structure pointers are left as allocated
wire_sentinel_unwired(m, s) ==
  [m EXCEPT !.vid.no_reference_picture = s,
            !.hist.sentinel_allocs = @ + 1]

\* the assignments of init_dpb that store the new sentinel and point its
\* top_field, bottom_field and frame at itself
wire_sentinel(m, s) ==
  [m EXCEPT !.vid.no_reference_picture = s,
            !.heap[s].top_field = s,
            !.heap[s].bottom_field = s,
            !.heap[s].frame = s,
            !.hist.sentinel_allocs = @ + 1]

\* p_Dpb->size = getDpbSize(...) + dpb_plus[...] and num_ref_frames
init_dpb_size(m, l, type) ==
  Bind(getDpbSize(m, m.vid.active_sps), LAMBDA g :
    Then(g.m, LAMBDA x :
      [x EXCEPT !.dpb[l].size = g.ret + x.inp.dpb_plus[DpbPlusIndex(type)],
                !.dpb[l].num_ref_frames = x.vid.active_sps.num_ref_frames]))

\* the inter-layer reference store of init_dpb: allocated for type 2
init_dpb_fs_ilref(m, l, type) ==
  IF type = 2
    THEN Bind(alloc_frame_store(m), LAMBDA f :
           Then(f.m, LAMBDA x :
             [x EXCEPT !.heap[x.dpb[l].fs_ilref].elems[1] = f.ptr,
                       !.heap[f.ptr].view_id = MVC_INIT_VIEW_ID,
                       !.heap[f.ptr].inter_view_flag = <<0, 0>>,
                       !.heap[f.ptr].anchor_pic_flag = <<0, 0>>]))
    ELSE [m EXCEPT !.heap[m.dpb[l].fs_ilref].elems[1] = NULL]

\* allocate a dummy storable picture
init_dpb_sentinel(m) ==
  Bind(alloc_storable_picture(m, FRAME, m.vid.width, m.vid.height,
                              m.vid.width_cr, m.vid.height_cr, 1), LAMBDA s :
    Then(s.m, LAMBDA x : wire_sentinel(x, s.ptr)))

\* picture error concealment: the last output frame store of init_dpb
init_dpb_last_out_fs(m) ==
  Bind(alloc_frame_store(m), LAMBDA f :
    Then(f.m, LAMBDA x : [x EXCEPT !.vid.last_out_fs = f.ptr]))

\* an init_dpb that keeps the counters of the pool it replaces
init_dpb_counters_stale(m, l) ==
  [m EXCEPT !.dpb[l].last_picture = NULL]

\* used_size, last_picture and the reference counters start at zero
init_dpb_counters(m, l) ==
  [m EXCEPT !.dpb[l].used_size = 0,
            !.dpb[l].last_picture = NULL,
            !.dpb[l].ref_frames_in_buffer = 0,
            !.dpb[l].ltref_frames_in_buffer = 0]

\* init_dpb(p_Vid, p_Dpb, type), p_Dpb = layer l
init_dpb(m, l, type) ==
  Then(Then(Then(Then(Then(Then(Then(Then(Then(Then(Then(Then(Then(
    [m EXCEPT !.dpb[l].p_Vid = "p_Vid"],
    LAMBDA x : IF x.dpb[l].init_done # 0 THEN free_dpb(x, l) ELSE x),
    LAMBDA x : init_dpb_size(x, l, type)),
    LAMBDA x : IF (IF MVC_EXTENSION_ENABLE = 1
                     THEN x.vid.active_sps.max_dec_frame_buffering
                            < x.vid.active_sps.num_ref_frames
                     ELSE x.dpb[l].size < x.vid.active_sps.num_ref_frames)
                 THEN error(x, "DPB size at specified level is smaller than the specified number of reference frames. This is not allowed.", 1000)
                 ELSE x),
    LAMBDA x : init_dpb_counters(x, l)),
    LAMBDA x : init_dpb_array(x, l, "fs", x.dpb[l].size, "init_dpb: p_Dpb->fs")),
    LAMBDA x : init_dpb_array(x, l, "fs_ref", x.dpb[l].size, "init_dpb: p_Dpb->fs_ref")),
    LAMBDA x : init_dpb_array(x, l, "fs_ltref", x.dpb[l].size, "init_dpb: p_Dpb->fs_ltref")),
    LAMBDA x : IF MVC_EXTENSION_ENABLE = 1
                 THEN init_dpb_array(x, l, "fs_ilref", 1, "init_dpb: p_Dpb->fs_ilref")
                 ELSE x),
    LAMBDA x : init_dpb_stores(x, l, 1)),
    LAMBDA x : IF MVC_EXTENSION_ENABLE = 1 THEN init_dpb_fs_ilref(x, l, type) ELSE x),
    LAMBDA x : IF NeedSentinel(x.vid) THEN init_dpb_sentinel(x) ELSE x),
    LAMBDA x : [x EXCEPT !.dpb[l].last_output_poc = INT_MIN,
                         !.dpb[l].last_output_view_id =
                            IF MVC_EXTENSION_ENABLE = 1 THEN -1 ELSE @,
                         !.vid.last_has_mmco_5 = 0,
                         !.dpb[l].init_done = 1,
                         !.hist.top = INT_MIN]),
    LAMBDA x : IF x.vid.conceal_mode # 0 /\ x.vid.last_out_fs = NULL
                 THEN init_dpb_last_out_fs(x) ELSE x)

(***************************************************************************)
(* Inputs: sequence parameter sets and what activating one sets in p_Vid   *)
(***************************************************************************)
SPS(level, profile, cs3, w, h, fmo, vui, restr, mdfb, nrf, sps_mdfb, chroma) ==
  [level_idc |-> level, profile_idc |-> profile, constrained_set3_flag |-> cs3,
   pic_width_in_mbs_minus1 |-> w, pic_height_in_map_units_minus1 |-> h,
   frame_mbs_only_flag |-> fmo,
   vui_parameters_present_flag |-> vui,
   vui_seq_parameters |-> [bitstream_restriction_flag |-> restr,
                           max_dec_frame_buffering |-> mdfb],
   num_ref_frames |-> nrf, max_dec_frame_buffering |-> sps_mdfb,
   chroma_format_idc |-> chroma]

\* VUI settings <<vui_parameters_present_flag, bitstream_restriction_flag,
\* max_dec_frame_buffering>>
VuiNone ==
  {<<0, 0, 0>>, <<1, 0, 0>>}

VuiOverrides ==
  {<<1, 1, v>> : v \in (0..MaxSmallVui) \cup {16, 17}}

\* picture dimensions in macroblocks, minus 1
WidthsMinus1 ==
  {2 ^ k - 1 : k \in 0..MaxLog2Width}

HeightsMinus1 ==
  {0, 63, 84}

\* <<profile_idc of p_Vid, num_views_minus1 of the active subset SPS>>
ViewSettings ==
  {<<FREXT_HP, 0>>} \cup ({MVC_HIGH, STEREO_HIGH} \X (0..(MaxNumViews - 1)))

UnknownLevels ==
  {5, 63}

\* parameter sets of the capacity specification: every level, with the
\* profile / constrained_set3 variants where the table reads them (level 11)
CapacitySPS ==
  {SPS(lv, pr[1], pr[2], w, h, fmo, v[1], v[2], v[3], 1, 16, YUV420) :
     lv \in (LevelCodes \ {11}) \cup UnknownLevels, pr \in {<<FREXT_HP, 0>>},
     w \in WidthsMinus1, h \in HeightsMinus1, fmo \in {0, 1},
     v \in VuiNone \cup VuiOverrides}
  \cup
  {SPS(11, pr[1], pr[2], w, h, fmo, v[1], v[2], v[3], 1, 16, YUV420) :
     pr \in {<<FREXT_HP, 0>>, <<FREXT_HP, 1>>, <<BASELINE, 0>>, <<BASELINE, 1>>},
     w \in WidthsMinus1, h \in HeightsMinus1, fmo \in {0, 1},
     v \in VuiNone \cup VuiOverrides}

(***************************************************************************)
(* Initial state: the decoder after OpenDecoder, its DPB layers zeroed     *)
(***************************************************************************)
Layers ==
  0..(MAX_NUM_DPB_LAYERS - 1)

ZeroDpb ==
  [p_Vid |-> "NULL", fs |-> NULL, fs_ref |-> NULL, fs_ltref |-> NULL, fs_ilref |-> NULL,
   size |-> 0, used_size |-> 0, ref_frames_in_buffer |-> 0,
   ltref_frames_in_buffer |-> 0, last_output_poc |-> 0, last_output_view_id |-> 0,
   init_done |-> 0, num_ref_frames |-> 0, last_picture |-> NULL]

OpenedVid ==
  [active_sps |-> NULL, active_subset_sps |-> NULL, profile_idc |-> 0,
   no_reference_picture |-> NULL, last_out_fs |-> NULL, dec_picture |-> NULL,
   conceal_mode |-> 0, last_has_mmco_5 |-> 0,
   width |-> 32, height |-> 32, width_cr |-> 16, height_cr |-> 16,
   separate_colour_plane_flag |-> 0]

ZeroHist ==
  [double_free |-> FALSE, use_after_free |-> FALSE,
   sentinel_allocs |-> 0, sentinel_frees |-> 0, stale |-> {},
   oom |-> FALSE, returned |-> {}, twice |-> {},
   out |-> <<>>, last_out |-> INT_MIN, arrivals |-> 0, mono |-> TRUE,
   top |-> INT_MIN]

NoCall ==
  [op |-> "none", layer |-> 0, type |-> 0, arg |-> 0]

\* activating a parameter set: what the caller stores in p_Vid before it
\* calls getDpbSize or init_dpb
Activate(vid, sps, view) ==
  [vid EXCEPT !.active_sps = sps, !.profile_idc = view[1],
              !.active_subset_sps = [num_views_minus1 |-> view[2]]]

Machine(vid, ora) ==
  [vid |-> vid, inp |-> p_Inp, dpb |-> p_Dpb, heap |-> heap, pc |-> pc,
   err |-> {}, hist |-> [hist EXCEPT !.returned = {}, !.twice = {}, !.out = <<>>],
   ora |-> ora, nalloc |-> 0]

Oracles ==
  [ub : {"abort", "pass"}, calloc0 : {"null", "unique"}, fail : {0}]

Commit(m) ==
  /\ p_Vid' = m.vid
  /\ p_Inp' = m.inp
  /\ p_Dpb' = m.dpb
  /\ heap' = m.heap
  /\ pc' = m.pc
  /\ stderr' = m.err
  /\ hist' = [m.hist EXCEPT !.stale = @ \cap Pointers(m)]

InitCommon ==
  /\ p_Dpb = [l \in Layers |-> ZeroDpb]
  /\ heap = <<>>
  /\ pc = "running"
  /\ stderr = {}
  /\ retval = NULL
  /\ last_call = NoCall
  /\ hist = ZeroHist

(***************************************************************************)
(* Capacity specification: getDpbSize on every parameter set               *)
(***************************************************************************)
InitCapacity ==
  /\ InitCommon
  /\ p_Inp = [dpb_plus |-> <<1, 0>>]
  /\ \E sps \in CapacitySPS, view \in ViewSettings :
       p_Vid = Activate(OpenedVid, sps, view)

CallGetDpbSize ==
  /\ pc = "running"
  /\ last_call.op = "none"
  /\ LET g == getDpbSize(Machine(p_Vid, [ub |-> "abort", calloc0 |-> "null", fail |-> 0]), p_Vid.active_sps)
     IN  /\ Commit(g.m)
         /\ retval' = g.ret
  /\ last_call' = [op |-> "getDpbSize", layer |-> 0, type |-> 0, arg |-> 0]

NextCapacity ==
  CallGetDpbSize

SpecCapacity ==
  InitCapacity /\ [][NextCapacity]_vars

(***************************************************************************)
(* The calls into the DPB                                                  *)
(***************************************************************************)
DpbPlusSettings ==
  {<<a, 0>> : a \in (-MaxDpbPlus)..MaxDpbPlus}

\* the caller activates sps / view and calls init_dpb(p_Vid, p_Dpb_layer[l], type)
CallInitDpb(l, type, sps, view, ora) ==
  /\ pc = "running"
  /\ hist.sentinel_allocs < MaxSentinelAllocs
  /\ Commit(init_dpb(Machine(Activate(p_Vid, sps, view), ora), l, type))
  /\ last_call' = [op |-> "init_dpb", layer |-> l, type |-> type, arg |-> 0]
  /\ UNCHANGED retval

\* free_dpb(p_Dpb_layer[l])
CallFreeDpb(l, ora) ==
  /\ pc = "running"
  /\ Commit(free_dpb(Machine(p_Vid, ora), l))
  /\ last_call' = [op |-> "free_dpb", layer |-> l, type |-> 0, arg |-> 0]
  /\ UNCHANGED retval

(***************************************************************************)
(* Initialisation specification: one init_dpb on a fresh decoder, for      *)
(* every level and a spread of picture sizes, overrides and adjustments    *)
(***************************************************************************)
InitWidthsMinus1 ==
  {0, 127, 2 ^ MaxLog2Width - 1}

InitHeightsMinus1 ==
  {63}

RefSettings ==
  {<<1, 16>>, <<4, 16>>, <<4, 2>>}

InitSPS ==
  {SPS(lv, pr[1], pr[2], w, h, fmo, v[1], v[2], v[3], r[1], r[2], YUV420) :
     lv \in (LevelCodes \ {11}) \cup UnknownLevels, pr \in {<<FREXT_HP, 0>>},
     w \in InitWidthsMinus1, h \in InitHeightsMinus1, fmo \in {0, 1},
     v \in {<<0, 0, 0>>, <<1, 1, 0>>, <<1, 1, 2>>, <<1, 1, 17>>}, r \in RefSettings}
  \cup
  {SPS(11, pr[1], pr[2], w, h, fmo, v[1], v[2], v[3], r[1], r[2], YUV420) :
     pr \in {<<FREXT_HP, 0>>, <<FREXT_HP, 1>>, <<BASELINE, 0>>, <<BASELINE, 1>>},
     w \in InitWidthsMinus1, h \in InitHeightsMinus1, fmo \in {0, 1},
     v \in {<<0, 0, 0>>, <<1, 1, 0>>, <<1, 1, 2>>, <<1, 1, 17>>}, r \in RefSettings}

InitViews ==
  {<<FREXT_HP, 0>>, <<MVC_HIGH, 1>>}

\* the parameter set the caller is about to activate is held in p_Vid
InitInit ==
  /\ InitCommon
  /\ p_Inp \in [dpb_plus : DpbPlusSettings]
  /\ \E sps \in InitSPS, view \in InitViews :
       p_Vid = Activate(OpenedVid, sps, view)

FirstInitDpb ==
  /\ last_call.op = "none"
  /\ \E l \in Layers, type \in {1, 2}, ora \in Oracles :
       CallInitDpb(l, type, p_Vid.active_sps,
                   <<p_Vid.profile_idc, p_Vid.active_subset_sps.num_views_minus1>>, ora)

NextInit ==
  FirstInitDpb

SpecInit ==
  InitInit /\ [][NextInit]_vars

(***************************************************************************)
(* Lifecycle specification: any sequence of init_dpb and free_dpb calls    *)
(* on the two DPB layers, re-initialisation included                       *)
(***************************************************************************)
LifeSPS ==
  {SPS(lv, FREXT_HP, 0, w, 63, 1, v[1], v[2], v[3], 1, 16, YUV420) :
     lv \in {31}, w \in {127}, v \in {<<0, 0, 0>>}}

LifeViews ==
  {<<FREXT_HP, 0>>}

Init ==
  /\ InitCommon
  /\ p_Inp \in [dpb_plus : DpbPlusSettings]
  /\ \E cm \in {0, 1} : p_Vid = [OpenedVid EXCEPT !.conceal_mode = cm]

\* layer 0 is initialised with type 1, layer 1 with type 2
DoInitDpb ==
  \E l \in Layers, sps \in LifeSPS, view \in LifeViews, ora \in Oracles :
    CallInitDpb(l, l + 1, sps, view, ora)

DoFreeDpb ==
  \E l \in Layers, ora \in Oracles :
    CallFreeDpb(l, ora)

Next ==
  \/ DoInitDpb
  \/ DoFreeDpb

Spec ==
  Init /\ [][Next]_vars

(***************************************************************************)
(* Re-initialisation specification: init_dpb calls only                    *)
(***************************************************************************)
NextReinit ==
  DoInitDpb

SpecReinit ==
  Init /\ [][NextReinit]_vars

(***************************************************************************)
(* Properties                                                              *)
(***************************************************************************)
ActiveSps ==
  p_Vid.active_sps

CalledGetDpbSize ==
  last_call.op = "getDpbSize"

CalledInitDpb ==
  last_call.op = "init_dpb"

\* the DPB layer of the last call
LastDpb ==
  p_Dpb[last_call.layer]

\* the bound the table gives before any VUI override
TableBound ==
  IF ActiveSps.level_idc = 0 THEN 16 ELSE TableSize(p_Vid, ActiveSps)

\* a picture size that fits the budget of its level
ValidPicSize ==
  ActiveSps.level_idc = 0 \/ PicSizeMb(ActiveSps) <= LevelBudget(ActiveSps)

\* C1: for a recognised level, a picture size valid for it, a single-view
\* profile and no VUI bitstream restriction, getDpbSize returns 1..16.
C1_CapacityInRange ==
  (/\ CalledGetDpbSize
   /\ ActiveSps.level_idc \in LevelCodes
   /\ ValidPicSize
   /\ ~IsMultiview(p_Vid)
   /\ ~VuiRestricted(ActiveSps))
    => retval \in 1..16

C1_Witness ==
  /\ CalledGetDpbSize
  /\ ActiveSps.level_idc \in LevelCodes \ {0}
  /\ PicSizeMb(ActiveSps) = LevelBudget(ActiveSps)
  /\ ~IsMultiview(p_Vid)
  /\ ~VuiRestricted(ActiveSps)
  /\ retval = 1

\* the budget as the claim C2 words it
C2_Budget ==
  IF ActiveSps.level_idc = 11
    THEN IF ActiveSps.profile_idc \notin {FREXT_HP, FREXT_CAVLC444, MVC_HIGH, STEREO_HIGH}
              /\ ActiveSps.constrained_set3_flag = 1
           THEN 396 ELSE 900
    ELSE LevelBudget(ActiveSps)

C2_Applies ==
  /\ CalledInitDpb
  /\ pc = "running"
  /\ ActiveSps.level_idc \in LevelCodes \ {0}
  /\ ~IsMultiview(p_Vid)
  /\ ~VuiRestricted(ActiveSps)

\* C2: single view, no VUI restriction, recognised non-zero level: a
\* completed init_dpb has set size = min(budget div pic_size_mb, 16) +
\* dpb_plus; level 31 with 8192 macroblocks and +1 gives 2 and then 3.
C2_InitDpbSize ==
  C2_Applies =>
    LET plus == p_Inp.dpb_plus[IF last_call.type = 2 THEN 2 ELSE 1]
        computed == imin(C2_Budget \div PicSizeMb(ActiveSps), 16)
    IN  /\ LastDpb.size = computed + plus
        /\ (ActiveSps.level_idc = 31 /\ PicSizeMb(ActiveSps) = 8192 /\ plus = 1)
             => (computed = 2 /\ LastDpb.size = 3)

C2_Witness ==
  /\ C2_Applies
  /\ ActiveSps.level_idc = 31
  /\ PicSizeMb(ActiveSps) = 8192
  /\ p_Inp.dpb_plus[IF last_call.type = 2 THEN 2 ELSE 1] = 1
  /\ LastDpb.size = 3
  /\ LastDpb.init_done = 1

NoPoolAllocated ==
  /\ pc = "exited"
  /\ LastDpb.init_done = 0
  /\ LastDpb.fs = NULL
  /\ \A a \in DOMAIN heap : heap[a].kind # "FrameStore"

\* C3: a VUI override above the table-derived bound is fatal: the session
\* is aborted and init_dpb allocates no pool from the override.
C3_VuiOverflowAborts ==
  (/\ CalledInitDpb
   /\ VuiRestricted(ActiveSps)
   /\ ActiveSps.vui_seq_parameters.max_dec_frame_buffering > TableBound)
    => NoPoolAllocated

\* C4 as claimed: an override within the bound is returned exactly, for
\* every level code.
C4_OverrideReturnedExactly ==
  (/\ CalledGetDpbSize
   /\ VuiRestricted(ActiveSps)
   /\ ActiveSps.vui_seq_parameters.max_dec_frame_buffering <= TableBound)
    => retval = ActiveSps.vui_seq_parameters.max_dec_frame_buffering

\* C4 (amended): with a VUI bitstream restriction, a level other than 0 and
\* an override within the table-derived bound, getDpbSize returns the
\* override when it is at least 1 and 1 when it is 0; with level 0 it
\* returns 16 whatever the VUI says.
C4_OverrideAtLeastOne ==
  (CalledGetDpbSize /\ VuiRestricted(ActiveSps)) =>
    LET mdfb == ActiveSps.vui_seq_parameters.max_dec_frame_buffering
    IN  /\ (ActiveSps.level_idc # 0 /\ mdfb <= TableBound /\ mdfb >= 1) => retval = mdfb
        /\ (ActiveSps.level_idc # 0 /\ mdfb <= TableBound /\ mdfb = 0) => retval = 1
        /\ ActiveSps.level_idc = 0 => retval = 16

C4_Witness ==
  /\ CalledGetDpbSize
  /\ VuiRestricted(ActiveSps)
  /\ ActiveSps.level_idc \in LevelCodes \ {0}
  /\ ActiveSps.vui_seq_parameters.max_dec_frame_buffering = 0
  /\ TableBound >= 2
  /\ retval = 1

\* C5: an unrecognised level_idc is fatal: the session is aborted and no
\* pool is ever allocated for it.
C5_UnknownLevelAborts ==
  (CalledInitDpb /\ ActiveSps.level_idc \notin LevelCodes)
    => NoPoolAllocated

\* C6: an init_dpb that completes leaves size >= num_ref_frames; a size
\* below num_ref_frames aborts before any frame store is allocated.
C6_SizeCoversRefFrames ==
  CalledInitDpb =>
    /\ LastDpb.init_done = 1 => LastDpb.size >= ActiveSps.num_ref_frames
    /\ LastDpb.size < ActiveSps.num_ref_frames => NoPoolAllocated

ErrorTexts ==
  {"undefined level",
   "max_dec_frame_buffering larger than MaxDpbSize",
   "DPB size at specified level is smaller than the specified number of reference frames. This is not allowed."}

\* C7: a call of error ends the session, no statement of the caller runs
\* after it: the call that raised an error leaves no initialised DPB.
C7_ErrorEndsSession ==
  (stderr \cap ErrorTexts # {})
    => (pc = "exited" /\ (CalledInitDpb => LastDpb.init_done = 0))

InitedLayers ==
  {l \in Layers : p_Dpb[l].init_done = 1}

LiveOfKind(kind) ==
  {a \in DOMAIN heap : heap[a].kind = kind}

\* the index arrays and the frame stores the initialised layers hold
PoolArrays ==
  UNION {{p_Dpb[l].fs, p_Dpb[l].fs_ref, p_Dpb[l].fs_ltref, p_Dpb[l].fs_ilref} :
           l \in InitedLayers}

PoolStores ==
  UNION {SetOfSeq(heap[p_Dpb[l].fs].elems) \cup SetOfSeq(heap[p_Dpb[l].fs_ilref].elems) :
           l \in InitedLayers} \ {NULL}

\* C8: after any sequence of init_dpb calls exactly the frame stores and
\* index arrays of the latest call of each layer are live, none of an
\* earlier call remains allocated, and nothing is freed twice.
C8_ReinitTearsDown ==
  /\ ~hist.double_free
  /\ ~hist.use_after_free
  /\ pc = "running" =>
       /\ LiveOfKind("array") = PoolArrays
       /\ LiveOfKind("FrameStore") \ {p_Vid.last_out_fs} = PoolStores

EmptyFrameStore(b) ==
  /\ b.kind = "FrameStore"
  /\ b.is_used = 0
  /\ b.is_reference = 0
  /\ b.is_long_term = 0
  /\ b.is_orig_reference = 0
  /\ b.is_output = 0
  /\ b.frame = NULL
  /\ b.top_field = NULL
  /\ b.bottom_field = NULL

AllNull(a, n) ==
  /\ Live([heap |-> heap], a)
  /\ heap[a].kind = "array"
  /\ Len(heap[a].elems) = n
  /\ \A i \in 1..n : heap[a].elems[i] = NULL

\* C9: after init_dpb the pool holds exactly size frame stores, each
\* Empty; the short-term and long-term index views are empty; used_size,
\* ref_frames_in_buffer and ltref_frames_in_buffer are 0, last_picture is
\* unset, last_output_poc is INT_MIN and init_done is 1.
C9_PoolAfterInit ==
  (CalledInitDpb /\ pc = "running") =>
    LET d == LastDpb
    IN  /\ d.init_done = 1
        /\ d.size >= 0
        /\ d.fs \in DOMAIN heap
        /\ heap[d.fs].kind = "array"
        /\ Len(heap[d.fs].elems) = d.size
        /\ \A i \in 1..d.size :
             /\ heap[d.fs].elems[i] \in DOMAIN heap
             /\ EmptyFrameStore(heap[heap[d.fs].elems[i]])
             /\ \A j \in 1..d.size : heap[d.fs].elems[i] = heap[d.fs].elems[j] => i = j
        /\ AllNull(d.fs_ref, d.size)
        /\ AllNull(d.fs_ltref, d.size)
        /\ d.used_size = 0
        /\ d.ref_frames_in_buffer = 0
        /\ d.ltref_frames_in_buffer = 0
        /\ d.last_picture = NULL
        /\ d.last_output_poc = INT_MIN

\* a re-initialisation that built a pool of three frame stores
C9_Witness ==
  /\ CalledInitDpb
  /\ pc = "running"
  /\ hist.sentinel_frees >= 1
  /\ LastDpb.size = 3
  /\ LastDpb.init_done = 1
  /\ Cardinality(SetOfSeq(heap[LastDpb.fs].elems) \cap LiveOfKind("FrameStore")) = 3

\* C10 as claimed: at most one sentinel allocation ever happens.
C10_SentinelAllocatedOnce ==
  hist.sentinel_allocs <= 1

\* C10 (amended): at most one sentinel picture is live at any time:
\* init_dpb allocates one only when p_Vid->no_reference_picture is null and
\* otherwise reuses the one there is; every free_dpb, the one of a
\* re-initialisation included, frees it, so that a decoder instance can
\* allocate a sentinel more than once.
C10_OneSentinelAtATime ==
  /\ hist.sentinel_allocs - hist.sentinel_frees
       = (IF p_Vid.no_reference_picture = NULL THEN 0 ELSE 1)
  /\ p_Vid.no_reference_picture # NULL =>
       /\ p_Vid.no_reference_picture \in DOMAIN heap
       /\ heap[p_Vid.no_reference_picture].kind = "StorablePicture"

\* both layers initialised on the second sentinel of the decoder
C10_Witness ==
  /\ hist.sentinel_allocs = 2
  /\ hist.sentinel_frees = 1
  /\ InitedLayers = Layers
  /\ p_Vid.no_reference_picture \in DOMAIN heap

\* C11: once init_dpb has returned the sentinel exists, and as long as
\* p_Vid->no_reference_picture is set it is a live picture whose frame,
\* top_field and bottom_field all point to the sentinel itself.
C11_SentinelSelfWired ==
  /\ (CalledInitDpb /\ pc = "running") => p_Vid.no_reference_picture # NULL
  /\ p_Vid.no_reference_picture # NULL =>
       /\ p_Vid.no_reference_picture \in DOMAIN heap
       /\ heap[p_Vid.no_reference_picture].frame = p_Vid.no_reference_picture
       /\ heap[p_Vid.no_reference_picture].top_field = p_Vid.no_reference_picture
       /\ heap[p_Vid.no_reference_picture].bottom_field = p_Vid.no_reference_picture

\* a second init_dpb found the sentinel of the first and left it wired
C11_Witness ==
  /\ CalledInitDpb
  /\ pc = "running"
  /\ InitedLayers = Layers
  /\ hist.sentinel_allocs = 1
  /\ p_Vid.no_reference_picture \in DOMAIN heap
  /\ heap[p_Vid.no_reference_picture].frame = p_Vid.no_reference_picture

(***************************************************************************)
(* Picture specification: pictures allocated for the decoder's current     *)
(* picture and freed again, before, between and after init_dpb and         *)
(* free_dpb, for every picture structure, chroma format, colour-plane      *)
(* separation and frame/field coding                                       *)
(***************************************************************************)
PictureSPS ==
  {SPS(31, FREXT_HP, 0, 127, 63, fmo, 0, 0, 0, 1, 16, chroma) :
     fmo \in {0, 1}, chroma \in {YUV400, YUV420}}

PictureOracles ==
  [ub : {"abort", "pass"}, calloc0 : {"unique"}, fail : {0}]

InitPicture ==
  /\ InitCommon
  /\ p_Inp = [dpb_plus |-> <<0, 0>>]
  /\ \E sps \in PictureSPS, scp \in {0, 1} :
       p_Vid = Activate([OpenedVid EXCEPT !.separate_colour_plane_flag = scp],
                        sps, <<FREXT_HP, 0>>)

\* p_Vid->dec_picture = alloc_storable_picture(p_Vid, structure, ...)
CallAllocPicture(structure, ora) ==
  /\ pc = "running"
  /\ p_Vid.dec_picture = NULL
  /\ LET s == alloc_storable_picture(Machine(p_Vid, ora), structure,
                                     p_Vid.width, p_Vid.height,
                                     p_Vid.width_cr, p_Vid.height_cr, 1)
     IN  Commit(Then(s.m, LAMBDA x : [x EXCEPT !.vid.dec_picture = s.ptr]))
  /\ last_call' = [op |-> "alloc_storable_picture", layer |-> 0, type |-> 0,
                   arg |-> structure]
  /\ UNCHANGED retval

\* the release of the current picture in free_global_buffers
CallFreePicture(ora) ==
  /\ pc = "running"
  /\ p_Vid.dec_picture # NULL
  /\ Commit(Then(free_storable_picture(Machine(p_Vid, ora), p_Vid.dec_picture),
                 LAMBDA x : [x EXCEPT !.vid.dec_picture = NULL]))
  /\ last_call' = [op |-> "free_storable_picture", layer |-> 0,
                   type |-> heap[p_Vid.dec_picture].structure,
                   arg |-> p_Vid.dec_picture]
  /\ UNCHANGED retval

DoAllocPicture ==
  \E structure \in {FRAME, TOP_FIELD, BOTTOM_FIELD}, ora \in PictureOracles :
    CallAllocPicture(structure, ora)

DoFreePicture ==
  \E ora \in PictureOracles :
    CallFreePicture(ora)

\* init_dpb and free_dpb of the base layer
PictureInitDpb ==
  /\ hist.sentinel_allocs < MaxPictureInits
  /\ \E ora \in PictureOracles :
       CallInitDpb(0, 1, p_Vid.active_sps, <<FREXT_HP, 0>>, ora)

PictureFreeDpb ==
  \E ora \in PictureOracles :
    CallFreeDpb(0, ora)

NextPicture ==
  \/ DoAllocPicture
  \/ DoFreePicture
  \/ PictureInitDpb
  \/ PictureFreeDpb

SpecPicture ==
  InitPicture /\ [][NextPicture]_vars

\* C12 as claimed: every picture alloc_storable_picture returns has frame,
\* top_field and bottom_field equal to the sentinel and never null.
C12_ReturnedPointSentinel ==
  \A r \in hist.returned :
    /\ r.frame # NULL /\ r.top_field # NULL /\ r.bottom_field # NULL
    /\ r.frame = r.no_reference_picture
    /\ r.top_field = r.no_reference_picture
    /\ r.bottom_field = r.no_reference_picture

\* C12 (amended): every picture alloc_storable_picture returns has frame,
\* top_field and bottom_field equal to p_Vid->no_reference_picture as it is
\* at the call: the live sentinel where one exists, and null where none
\* exists, as in the call by which init_dpb creates the sentinel.
C12_ReturnedPointHandle ==
  \A r \in hist.returned :
    /\ r.frame = r.no_reference_picture
    /\ r.top_field = r.no_reference_picture
    /\ r.bottom_field = r.no_reference_picture
    /\ (r.no_reference_picture # NULL /\ pc = "running") =>
         /\ r.no_reference_picture \in LiveOfKind("StorablePicture")
         /\ r.ptr # r.no_reference_picture

\* a field picture allocated while the sentinel exists points to it
C12_Witness ==
  /\ last_call.op = "alloc_storable_picture"
  /\ last_call.arg = TOP_FIELD
  /\ pc = "running"
  /\ p_Vid.no_reference_picture # NULL
  /\ p_Vid.dec_picture # NULL
  /\ heap[p_Vid.dec_picture].frame = p_Vid.no_reference_picture
  /\ \E r \in hist.returned : r.ptr = p_Vid.dec_picture

\* C14: free_dpb on a DPB that was never initialised, all of its fields
\* null or zero, returns without a null dereference, frees nothing and
\* leaves the DPB, the decoder and the heap as they were.
C14_FreeUninitialisedIsNoOp ==
  [][(pc = "running" /\ last_call'.op = "free_dpb"
        /\ p_Dpb[last_call'.layer] = ZeroDpb)
      => (pc' = "running" /\ p_Dpb' = p_Dpb /\ heap' = heap /\ p_Vid' = p_Vid)]_vars

\* the buffers picture p owns in heap h
OwnedBuffers(h, p) ==
  ({h[p].imgY, h[p].imgUV, h[p].mv_info, h[p].motion.mb_field}
     \cup {h[p].JVmv_info[i] : i \in 1..MAX_PLANE}
     \cup {h[p].JVmotion[i].mb_field : i \in 1..MAX_PLANE}
     \cup SetOfSeq(h[p].listX)) \ {NULL}

\* the number of blocks a picture of the given structure is made of under
\* the active parameter set: the picture, imgY, imgUV unless YUV400, mv_info
\* and mb_field, both again per colour plane, and the reference lists of a
\* field picture of a stream that is not frame-only
PictureBlockCount(structure) ==
  1 + 1 + (IF ActiveSps.chroma_format_idc # YUV400 THEN 1 ELSE 0) + 2
    + (IF p_Vid.separate_colour_plane_flag # 0 THEN 2 * MAX_PLANE ELSE 0)
    + (IF ActiveSps.frame_mbs_only_flag = 0 /\ structure # FRAME
         THEN 2 * MAX_NUM_SLICES ELSE 0)

\* an alloc_storable_picture step that returns adds the picture and its
\* buffers to the heap and nothing else
AllocAddsPicture ==
  (last_call'.op = "alloc_storable_picture" /\ pc = "running") =>
    /\ pc' = "running"
    /\ p_Vid'.dec_picture \in DOMAIN heap'
    /\ (DOMAIN heap') \ (DOMAIN heap)
         = {p_Vid'.dec_picture} \cup OwnedBuffers(heap', p_Vid'.dec_picture)
    /\ Cardinality((DOMAIN heap') \ (DOMAIN heap)) = PictureBlockCount(last_call'.arg)
    /\ \A a \in DOMAIN heap : a \in DOMAIN heap' /\ heap'[a] = heap[a]

\* a free_storable_picture step removes the picture and its buffers from
\* the heap, each by one free, and nothing else
FreeRemovesPicture ==
  (last_call'.op = "free_storable_picture" /\ pc = "running") =>
    /\ pc' = "running"
    /\ hist'.twice = {}
    /\ (DOMAIN heap) \ (DOMAIN heap')
         = {p_Vid.dec_picture} \cup OwnedBuffers(heap, p_Vid.dec_picture)
    /\ Cardinality((DOMAIN heap) \ (DOMAIN heap'))
         = PictureBlockCount(heap[p_Vid.dec_picture].structure)
    /\ \A a \in DOMAIN heap' : a \in DOMAIN heap /\ heap'[a] = heap[a]

\* C15: for every picture structure, chroma format, colour-plane separation
\* and frame/field coding, alloc_storable_picture followed by
\* free_storable_picture frees exactly the blocks that were allocated, each
\* of them once.
C15_PictureRoundTrip ==
  [][AllocAddsPicture /\ FreeRemovesPicture]_vars

\* a bottom field with colour planes and reference lists, luma only, has
\* been allocated and freed while the sentinel exists
C15_Witness ==
  /\ last_call.op = "free_storable_picture"
  /\ last_call.type = BOTTOM_FIELD
  /\ pc = "running"
  /\ ActiveSps.chroma_format_idc = YUV400
  /\ ActiveSps.frame_mbs_only_flag = 0
  /\ p_Vid.separate_colour_plane_flag = 1
  /\ p_Vid.dec_picture = NULL
  /\ p_Vid.no_reference_picture \in DOMAIN heap
  /\ LiveOfKind("buf") = OwnedBuffers(heap, p_Vid.no_reference_picture)

(***************************************************************************)
(* Exhaustion specification: the calls that allocate, with the allocator   *)
(* failing at any one of the first MaxFailAt allocations of a call         *)
(***************************************************************************)
OomOracles ==
  [ub : {"abort"}, calloc0 : {"unique"}, fail : 0..MaxFailAt]

OomSPS ==
  {SPS(31, FREXT_HP, 0, 127, 63, 0, 0, 0, 0, 1, 16, YUV420)}

InitOom ==
  /\ InitCommon
  /\ p_Inp = [dpb_plus |-> <<0, 0>>]
  /\ \E sps \in OomSPS, scp \in {0, 1}, cm \in {0, 1} :
       p_Vid = Activate([OpenedVid EXCEPT !.separate_colour_plane_flag = scp,
                                          !.conceal_mode = cm],
                        sps, <<FREXT_HP, 0>>)

OomInitDpb ==
  /\ hist.sentinel_allocs < MaxPictureInits
  /\ \E l \in Layers, ora \in OomOracles :
       CallInitDpb(l, l + 1, p_Vid.active_sps, <<FREXT_HP, 0>>, ora)

OomAllocPicture ==
  \E structure \in {FRAME, TOP_FIELD}, ora \in OomOracles :
    CallAllocPicture(structure, ora)

OomFreePicture ==
  \E ora \in OomOracles :
    CallFreePicture(ora)

NextOom ==
  \/ OomInitDpb
  \/ OomAllocPicture
  \/ OomFreePicture

SpecOom ==
  InitOom /\ [][NextOom]_vars

\* picture p has every buffer alloc_storable_picture gives a picture of its
\* kind under the active parameter set
CompletePicture(p) ==
  /\ p \in LiveOfKind("StorablePicture")
  /\ OwnedBuffers(heap, p) \subseteq DOMAIN heap
  /\ 1 + Cardinality(OwnedBuffers(heap, p)) = PictureBlockCount(heap[p].structure)

EOS == 1
SOP == 2
DEC_SUCCEED == 0
DEC_EOS == 1
DEC_ERRMASK == 32768

\* a | b on two's complement integers
RECURSIVE BitOr(_, _)
BitOr(a, b) ==
  IF a = 0 THEN b
  ELSE IF b = 0 THEN a
  ELSE IF a = -1 \/ b = -1 THEN -1
  ELSE 2 * BitOr(a \div 2, b \div 2) + (IF a % 2 = 1 \/ b % 2 = 1 THEN 1 ELSE 0)

\* a DecodeOneFrame that returns the error codes as they come
DecodeOneFrame_unmasked(iRet) ==
  IF iRet = SOP THEN DEC_SUCCEED
  ELSE IF iRet = EOS THEN DEC_EOS
  ELSE iRet

\* DecodeOneFrame, as a function of what decode_one_frame returned
DecodeOneFrame(iRet) ==
  IF iRet = SOP THEN DEC_SUCCEED
  ELSE IF iRet = EOS THEN DEC_EOS
  ELSE BitOr(iRet, DEC_ERRMASK)

\* the results of decode_one_frame: the small codes of either sign and the
\* values around the mask bit and at the ends of the int range
DecodeReturns ==
  ((-MaxDecodeRet)..MaxDecodeRet)
    \cup {32767, 32768, 32769, 65535, 65536, -32768, -32769, 2147483647, INT_MIN}

InitDecode ==
  /\ InitCommon
  /\ p_Inp = [dpb_plus |-> <<0, 0>>]
  /\ p_Vid = OpenedVid

CallDecodeOneFrame ==
  /\ pc = "running"
  /\ \E iRet \in DecodeReturns :
       /\ retval' = DecodeOneFrame(iRet)
       /\ last_call' = [op |-> "DecodeOneFrame", layer |-> 0, type |-> 0, arg |-> iRet]
  /\ UNCHANGED <<p_Vid, p_Inp, p_Dpb, heap, pc, stderr, hist>>

NextDecode ==
  CallDecodeOneFrame

SpecDecode ==
  InitDecode /\ [][NextDecode]_vars

\* C20: DecodeOneFrame returns DEC_SUCCEED exactly when decode_one_frame
\* reported SOP, DEC_EOS exactly when it reported EOS, and otherwise a value
\* that has the DEC_ERRMASK bits set and is neither 0 nor 1.
C20_DecodeOneFrameCodes ==
  last_call.op = "DecodeOneFrame" =>
    /\ (retval = DEC_SUCCEED) <=> (last_call.arg = SOP)
    /\ (retval = DEC_EOS) <=> (last_call.arg = EOS)
    /\ last_call.arg \notin {SOP, EOS} =>
         /\ BitOr(retval, DEC_ERRMASK) = retval
         /\ retval \notin {0, 1}
         /\ retval - last_call.arg \in {0, DEC_ERRMASK}

\* decode_one_frame returned 0, which is neither SOP nor EOS: an error code
C20_Witness ==
  /\ last_call.op = "DecodeOneFrame"
  /\ last_call.arg = 0
  /\ retval = DEC_ERRMASK

(***************************************************************************)
(* Picture insertion, output and eviction.  The bodies of                  *)
(* store_picture_in_dpb, insert_picture_in_dpb and                         *)
(* output_one_frame_from_dpb are not in mbuffer.c, which holds their       *)
(* prototypes only; they follow the slot lifecycle of the                  *)
(* specification: a stored picture is pending output, bumping goes by      *)
(* increasing picture order count with ties in arrival order, a slot is    *)
(* reclaimed once it is neither a reference nor pending output, and an     *)
(* IDR or clear-all marking empties the pool and restarts the watermark.   *)
(* The slots in use are fs[1..used_size], in arrival order.                *)
(***************************************************************************)
MaxPictures == 3

\* the frame store of slot i of layer l
SlotStore(m, l, i) ==
  m.heap[m.dpb[l].fs].elems[i]

\* the slots in use: the first used_size entries of the array
UsedSlots(m, l) ==
  1..imin(m.dpb[l].used_size, Len(m.heap[m.dpb[l].fs].elems))

\* the slots whose picture has not been output yet
PendingSlots(m, l) ==
  {i \in UsedSlots(m, l) : /\ m.heap[SlotStore(m, l, i)].is_used # 0
                           /\ m.heap[SlotStore(m, l, i)].is_output = 0}

\* the slots that hold neither a short-term nor a long-term reference
NonReferenceSlots(m, l) ==
  {i \in UsedSlots(m, l) : m.heap[SlotStore(m, l, i)].is_reference = 0}

\* the slot of S with the highest picture order count
get_largest_poc(m, l, S) ==
  CHOOSE i \in S : \A j \in S :
    \/ m.heap[SlotStore(m, l, i)].poc > m.heap[SlotStore(m, l, j)].poc
    \/ /\ m.heap[SlotStore(m, l, i)].poc = m.heap[SlotStore(m, l, j)].poc
       /\ i <= j

\* the slot of S with the lowest picture order count, the earliest arrival
\* among equals
get_smallest_poc(m, l, S) ==
  CHOOSE i \in S : \A j \in S :
    \/ m.heap[SlotStore(m, l, i)].poc < m.heap[SlotStore(m, l, j)].poc
    \/ /\ m.heap[SlotStore(m, l, i)].poc = m.heap[SlotStore(m, l, j)].poc
       /\ i <= j

\* the frame stores of the slots in use that satisfy Test, in slot order
SelectStores(m, l, Test(_)) ==
  SelectSeq(SubSeq(m.heap[m.dpb[l].fs].elems, 1,
                   imin(m.dpb[l].used_size, Len(m.heap[m.dpb[l].fs].elems))), Test)

\* fs_ref and fs_ltref list the short-term and long-term reference slots,
\* the two counters are their lengths
update_ref_list(m, l) ==
  LET st == SelectStores(m, l, LAMBDA f : m.heap[f].is_reference # 0
                                           /\ m.heap[f].is_long_term = 0)
      lt == SelectStores(m, l, LAMBDA f : m.heap[f].is_reference # 0
                                           /\ m.heap[f].is_long_term # 0)
  IN  [m EXCEPT
         !.heap[m.dpb[l].fs_ref].elems =
            [j \in DOMAIN @ |-> IF j <= Len(st) THEN st[j] ELSE NULL],
         !.heap[m.dpb[l].fs_ltref].elems =
            [j \in DOMAIN @ |-> IF j <= Len(lt) THEN lt[j] ELSE NULL],
         !.dpb[l].ref_frames_in_buffer = Len(st),
         !.dpb[l].ltref_frames_in_buffer = Len(lt)]

\* the picture of slot i is handed to the output and becomes the new
\* watermark.  hist.out lists the outputs of the current call, each with
\* the watermark it was released against (after) and the picture order
\* count of the output before it (prev)
write_stored_frame(m, l, i) ==
  LET f == SlotStore(m, l, i)
      p == m.heap[f].frame
  IN  [m EXCEPT
         !.heap[f].is_output = 1,
         !.heap[p].is_output = 1,
         !.hist.out = Append(@, [poc |-> m.heap[f].poc,
                                 id |-> m.heap[p].frame_num,
                                 after |-> m.dpb[l].last_output_poc,
                                 prev |-> m.hist.last_out]),
         !.hist.last_out = m.heap[f].poc,
         !.dpb[l].last_output_poc = m.heap[f].poc]

\* slot i returns to the pool: its picture is freed, the slot is emptied
\* and moved behind the slots that stay in use
remove_frame_from_dpb(m, l, i) ==
  LET f == SlotStore(m, l, i)
      last == imin(m.dpb[l].used_size, Len(m.heap[m.dpb[l].fs].elems))
  IN  Then(Then(free_attached(m, f, "frame"),
        LAMBDA x : [x EXCEPT
          !.heap[f].is_used = 0, !.heap[f].is_reference = 0,
          !.heap[f].is_long_term = 0, !.heap[f].is_orig_reference = 0,
          !.heap[f].is_output = 0, !.heap[f].poc = 0,
          !.heap[x.dpb[l].fs].elems =
             [j \in DOMAIN @ |-> IF j < i \/ j > last THEN @[j]
                                 ELSE IF j < last THEN @[j + 1] ELSE f],
          !.dpb[l].used_size = @ - 1]),
        LAMBDA x : update_ref_list(x, l))

\* the pending picture with the lowest picture order count is output; its
\* slot is reclaimed when it is not a reference
bump_lowest(m, l) ==
  LET i == get_smallest_poc(m, l, PendingSlots(m, l))
  IN  Then(write_stored_frame(m, l, i), LAMBDA x :
        IF x.heap[SlotStore(x, l, i)].is_reference = 0
          THEN remove_frame_from_dpb(x, l, i)
          ELSE x)

\* "bump one picture for output": [ret, m], ret the decode number of the
\* picture that was output, or NULL when none is available
output_one_frame_from_dpb(m, l) ==
  IF PendingSlots(m, l) = {}
    THEN [ret |-> NULL, m |-> m]
    ELSE LET i == get_smallest_poc(m, l, PendingSlots(m, l))
         IN  [ret |-> m.heap[m.heap[SlotStore(m, l, i)].frame].frame_num,
              m |-> bump_lowest(m, l)]

\* a full pool whose slots are all references cannot take another picture
capacity_violation(m) ==
  [m EXCEPT !.err = @ \cup {"no frames to output available"},
            !.pc = "exited"]
\* the slot that holds frame store f
SlotOf(m, l, f) ==
  CHOOSE i \in UsedSlots(m, l) : SlotStore(m, l, i) = f

\* pending pictures are output in increasing picture order count until the
\* picture of frame store f has been output, then f is reclaimed
RECURSIVE bump_and_evict(_, _, _)
bump_and_evict(m, l, f) ==
  IF m.pc # "running" \/ m.heap[f].is_used = 0 THEN m
  ELSE IF m.heap[f].is_output # 0
    THEN remove_frame_from_dpb(m, l, SlotOf(m, l, f))
    ELSE Bind(bump_lowest(m, l), LAMBDA m1 : bump_and_evict(m1, l, f))

\* buffer full: the non-reference slot with the lowest picture order count
\* is output, if pending, and evicted; without one the pool has overflowed
evict_for_insertion(m, l) ==
  IF NonReferenceSlots(m, l) = {}
    THEN capacity_violation(m)
    ELSE bump_and_evict(m, l,
           SlotStore(m, l, get_smallest_poc(m, l, NonReferenceSlots(m, l))))

\* the reference marking of frame store f and of its picture is removed
unmark_for_reference(m, f) ==
  IF f = NULL THEN NullDeref(m)
  ELSE IF m.heap[f].frame = NULL
    THEN [m EXCEPT !.heap[f].is_reference = 0,
                   !.heap[f].is_long_term = 0]
    ELSE [m EXCEPT !.heap[f].is_reference = 0,
                   !.heap[f].is_long_term = 0,
                   !.heap[m.heap[f].frame].used_for_reference = 0,
                   !.heap[m.heap[f].frame].is_long_term = 0]

\* implicit marking: the oldest short-term reference is unmarked when one
\* more would exceed the configured number of reference frames
sliding_window_memory_management(m, l) ==
  IF m.dpb[l].ref_frames_in_buffer > 0
       /\ m.dpb[l].ref_frames_in_buffer + 1 > m.dpb[l].num_ref_frames
    THEN Then(unmark_for_reference(m, m.heap[m.dpb[l].fs_ref].elems[1]),
              LAMBDA x : update_ref_list(x, l))
    ELSE m

\* every slot in use is unmarked
RECURSIVE unmark_all(_, _, _)
unmark_all(m, l, i) ==
  IF i \notin UsedSlots(m, l) THEN m
  ELSE unmark_all(unmark_for_reference(m, SlotStore(m, l, i)), l, i + 1)

\* the pool is emptied: pending pictures leave in output order
RECURSIVE flush_dpb(_, _)
flush_dpb(m, l) ==
  IF m.pc # "running" \/ m.dpb[l].used_size = 0 THEN m
  ELSE IF PendingSlots(m, l) = {}
    THEN Bind(remove_frame_from_dpb(m, l, 1), LAMBDA m1 : flush_dpb(m1, l))
    ELSE Bind(bump_lowest(m, l), LAMBDA m1 : flush_dpb(m1, l))

\* a reset that keeps the output watermark
idr_memory_management_keep(m, l) ==
  Then(update_ref_list(unmark_all(m, l, 1), l),
    LAMBDA x : flush_dpb(x, l))

\* full reset on an IDR picture or a clear-all-references marking: no
\* reference survives, the pool is emptied and the watermark restarts
idr_memory_management(m, l) ==
  Then(Then(update_ref_list(unmark_all(m, l, 1), l),
    LAMBDA x : flush_dpb(x, l)),
    LAMBDA x : [x EXCEPT !.dpb[l].last_output_poc = INT_MIN])

\* picture p is attached to the empty frame store f
insert_picture_in_dpb(m, f, p) ==
  [m EXCEPT !.heap[f].frame = p,
            !.heap[f].is_used = 3,
            !.heap[f].is_reference =
               IF m.heap[p].used_for_reference # 0 THEN 3 ELSE 0,
            !.heap[f].is_orig_reference =
               IF m.heap[p].used_for_reference # 0 THEN 3 ELSE 0,
            !.heap[f].is_long_term =
               IF m.heap[p].is_long_term # 0 THEN 3 ELSE 0,
            !.heap[f].is_output = m.heap[p].is_output,
            !.heap[f].poc = m.heap[p].poc]

\* store_picture_in_dpb(p_Dpb, p): marking, room for the picture, insertion
store_picture_in_dpb(m, l, p, clear_all) ==
  Then(Then(Then(Then(Then(m,
    LAMBDA x : IF clear_all THEN idr_memory_management(x, l)
               ELSE IF x.heap[p].used_for_reference # 0
                         /\ x.heap[p].is_long_term = 0
                 THEN sliding_window_memory_management(x, l)
                 ELSE x),
    \* hist.mono: no picture so far had a lower picture order count than
    \* the one stored before it in the same period between full resets
    LAMBDA x : [x EXCEPT !.hist.mono = @ /\ (clear_all \/ x.heap[p].poc >= x.hist.top),
                         !.hist.top = x.heap[p].poc]),
    LAMBDA x : IF x.dpb[l].used_size = x.dpb[l].size
                 THEN evict_for_insertion(x, l)
                 ELSE x),
    \* fs[used_size] lies outside the array when used_size exceeds size
    LAMBDA x : IF x.dpb[l].used_size + 1 \in DOMAIN x.heap[x.dpb[l].fs].elems
                 THEN [insert_picture_in_dpb(x,
                         SlotStore(x, l, x.dpb[l].used_size + 1), p)
                         EXCEPT !.dpb[l].used_size = @ + 1]
                 ELSE NullDeref(x)),
    LAMBDA x : update_ref_list(x, l))
(***************************************************************************)
(* Insertion specification: the base layer is initialised for a pool of    *)
(* one or two frame stores, frames are decoded and stored with every       *)
(* picture order count of a small range, as non-reference, short-term or   *)
(* long-term reference pictures, with or without a clear-all marking,      *)
(* pictures are bumped for output, and the pool is freed or initialised    *)
(* again                                                                   *)
(***************************************************************************)
Pocs ==
  {0, 2, 4}

\* what a decoded picture carries: [poc, ref, clear_all], ref 0 for a
\* non-reference, 1 for a short-term and 2 for a long-term reference
\* picture; an IDR picture or one with the clear-all marking is a
\* short-term reference picture whose picture order count is 0
DecodedPictures ==
  {<<poc, ref, FALSE>> : poc \in Pocs, ref \in {0, 1, 2}} \cup {<<0, 1, TRUE>>}

\* two frame stores at 128 x 64 macroblocks, one at 128 x 128
InsertSPS ==
  {SPS(31, FREXT_HP, 0, 127, h, 1, 0, 0, 0, 1, 16, YUV400) : h \in {63, 127}}

\* the parameter set of the larger picture, parsed before the first init_dpb
LargePictureSPS ==
  SPS(31, FREXT_HP, 0, 127, 127, 1, 0, 0, 0, 1, 16, YUV400)

InsertOracles ==
  [ub : {"abort"}, calloc0 : {"unique"}, fail : {0}]

InitInsert ==
  /\ InitCommon
  /\ p_Inp = [dpb_plus |-> <<0, 0>>]
  /\ p_Vid = Activate(OpenedVid, LargePictureSPS, <<FREXT_HP, 0>>)

\* the decoder's picture p is given its picture order count, decode number
\* and marking
set_picture(m, p, poc, ref) ==
  [m EXCEPT !.vid.dec_picture = p,
            !.hist.arrivals = @ + 1,
            !.heap[p].poc = poc,
            !.heap[p].frame_num = m.hist.arrivals + 1,
            !.heap[p].used_for_reference = IF ref # 0 THEN 1 ELSE 0,
            !.heap[p].is_long_term = IF ref = 2 THEN 1 ELSE 0]

\* a frame is decoded into a new picture, which is then stored in the DPB
\* of layer l
decode_and_store(m, l, poc, ref, clear_all) ==
  Bind(alloc_storable_picture(m, FRAME, m.vid.width, m.vid.height,
                              m.vid.width_cr, m.vid.height_cr, 0), LAMBDA s :
    Then(Then(Then(s.m,
      LAMBDA x : set_picture(x, s.ptr, poc, ref)),
      LAMBDA x : store_picture_in_dpb(x, l, s.ptr, clear_all)),
      LAMBDA x : [x EXCEPT !.vid.dec_picture = NULL]))

CallStorePicture(l, poc, ref, clear_all, ora) ==
  /\ pc = "running"
  /\ p_Dpb[l].init_done = 1
  /\ hist.arrivals < MaxPictures
  /\ Commit(decode_and_store(Machine(p_Vid, ora), l, poc, ref, clear_all))
  /\ last_call' = [op |-> IF clear_all THEN "store_picture_in_dpb/clear_all"
                                       ELSE "store_picture_in_dpb",
                   layer |-> l, type |-> ref, arg |-> poc]
  /\ UNCHANGED retval

CallOutputOneFrame(l, ora) ==
  /\ pc = "running"
  /\ p_Dpb[l].init_done = 1
  /\ LET o == output_one_frame_from_dpb(Machine(p_Vid, ora), l)
     IN  /\ Commit(o.m)
         /\ retval' = o.ret
  /\ last_call' = [op |-> "output_one_frame_from_dpb", layer |-> l,
                   type |-> 0, arg |-> 0]

\* each parameter set of the stream is activated once
InsertInitDpb ==
  /\ hist.sentinel_allocs < Cardinality(InsertSPS)
  /\ \E sps \in InsertSPS \ {p_Vid.active_sps}, ora \in InsertOracles :
       CallInitDpb(0, 1, sps, <<FREXT_HP, 0>>, ora)

InsertFreeDpb ==
  \E ora \in InsertOracles :
    CallFreeDpb(0, ora)

DoStorePicture ==
  \E p \in DecodedPictures, ora \in InsertOracles :
    CallStorePicture(0, p[1], p[2], p[3], ora)

DoOutputOneFrame ==
  \E ora \in InsertOracles :
    CallOutputOneFrame(0, ora)

NextInsert ==
  \/ InsertInitDpb
  \/ InsertFreeDpb
  \/ DoStorePicture
  \/ DoOutputOneFrame

SpecInsert ==
  InitInsert /\ [][NextInsert]_vars

\* C17: in every state reached through init_dpb, picture insertion,
\* eviction/output and free_dpb, used_size is at most size and
\* ref_frames_in_buffer + ltref_frames_in_buffer is at most size.
C17_CountersWithinSize ==
  \A l \in Layers :
    /\ p_Dpb[l].used_size <= p_Dpb[l].size
    /\ p_Dpb[l].ref_frames_in_buffer + p_Dpb[l].ltref_frames_in_buffer
         <= p_Dpb[l].size

\* a third picture has been stored in a pool of two frame stores that is
\* full and holds one short-term and one long-term reference
C17_Witness ==
  /\ pc = "running"
  /\ last_call.op = "store_picture_in_dpb"
  /\ hist.arrivals = 3
  /\ p_Dpb[0].size = 2
  /\ p_Dpb[0].used_size = 2
  /\ p_Dpb[0].ref_frames_in_buffer = 1
  /\ p_Dpb[0].ltref_frames_in_buffer = 1

\* the pictures in the pool of the base layer: decode number, picture order
\* count and reference marking of every slot in use
Resident(h, d) ==
  IF d.fs \notin DOMAIN h THEN {}
  ELSE {[id |-> h[h[h[d.fs].elems[i]].frame].frame_num,
         poc |-> h[h[d.fs].elems[i]].poc,
         ref |-> h[h[d.fs].elems[i]].is_reference # 0,
         pending |-> h[h[d.fs].elems[i]].is_output = 0] : i \in 1..d.used_size}

\* the picture order counts of the outputs of a call, in output order
OutputPocs(out) ==
  [i \in DOMAIN out |-> out[i].poc]

\* a picture without clear-all marking has been stored in a running, full pool
StoredIntoFullPool ==
  /\ pc = "running" /\ pc' = "running"
  /\ last_call'.op = "store_picture_in_dpb"
  /\ p_Dpb[0].init_done = 1
  /\ p_Dpb[0].used_size = p_Dpb[0].size

\* e was not a reference when it was evicted: it was none before, or it was
\* the oldest short-term reference and a short-term reference picture came in
EvictedAsNonReference(e) ==
  \/ ~e.ref
  \/ /\ last_call'.type = 1
     /\ heap[heap[heap[p_Dpb[0].fs_ref].elems[1]].frame].frame_num = e.id

\* exactly one picture e has left the pool: e was a non-reference slot, of
\* the lowest picture order count and the earliest arrival among the
\* non-reference slots, and it has been output
EvictsLowestNonReference ==
  StoredIntoFullPool =>
    \E e \in Resident(heap, p_Dpb[0]) :
      /\ {r.id : r \in Resident(heap', p_Dpb'[0])}
           = ({r.id : r \in Resident(heap, p_Dpb[0])} \ {e.id})
               \cup {hist'.arrivals}
      /\ EvictedAsNonReference(e)
      /\ e.pending => \E k \in DOMAIN hist'.out : hist'.out[k].id = e.id
      /\ \A r \in Resident(heap', p_Dpb'[0]) :
           (~r.ref /\ r.id # hist'.arrivals) =>
             (e.poc < r.poc \/ (e.poc = r.poc /\ e.id < r.id))

\* non-reference pictures of picture order count 0 and 4 fill a pool of two
\* frame stores: storing one of picture order count 2 outputs 0, and the
\* next bump outputs 2 and leaves 4
ExampleThirdInsertion ==
  (/\ StoredIntoFullPool
   /\ p_Dpb[0].size = 2
   /\ Resident(heap, p_Dpb[0])
        = {[id |-> 1, poc |-> 0, ref |-> FALSE, pending |-> TRUE],
           [id |-> 2, poc |-> 4, ref |-> FALSE, pending |-> TRUE]}
   /\ last_call'.type = 0 /\ last_call'.arg = 2)
    => /\ OutputPocs(hist'.out) = <<0>>
       /\ {r.poc : r \in Resident(heap', p_Dpb'[0])} = {4, 2}

ExampleNextBump ==
  (/\ pc = "running"
   /\ last_call'.op = "output_one_frame_from_dpb"
   /\ hist.last_out = 0
   /\ Resident(heap, p_Dpb[0])
        = {[id |-> 2, poc |-> 4, ref |-> FALSE, pending |-> TRUE],
           [id |-> 3, poc |-> 2, ref |-> FALSE, pending |-> TRUE]})
    => /\ OutputPocs(hist'.out) = <<2>>
       /\ {r.poc : r \in Resident(heap', p_Dpb'[0])} = {4}

\* C19: a picture inserted into a full DPB makes the DPB output (if
\* pending) and evict the non-reference slot with the lowest picture order
\* count, ties broken by arrival order; non-reference pictures with POC 0,
\* 4, 2 into a pool of two output POC 0, then POC 2, and leave POC 4.
C19_EvictLowestPocNonReference ==
  [][EvictsLowestNonReference /\ ExampleThirdInsertion /\ ExampleNextBump]_vars

\* the example has run: of the pictures stored first, second and third,
\* the third (POC 2) has just been output after one of POC 0, and the
\* second (POC 4), a non-reference picture, is the only one left
C19_Witness ==
  /\ pc = "running"
  /\ last_call.op = "output_one_frame_from_dpb"
  /\ p_Dpb[0].size = 2
  /\ hist.out = <<[poc |-> 2, id |-> 3, after |-> 0, prev |-> 0]>>
  /\ Resident(heap, p_Dpb[0])
       = {[id |-> 2, poc |-> 4, ref |-> FALSE, pending |-> TRUE]}

\* every picture was released at or above the watermark it met, and the
\* watermark it met is the picture order count of the output before it
\* unless the watermark had been reset
OutputInOrder(out) ==
  \A k \in DOMAIN out :
    /\ out[k].poc >= out[k].after
    /\ out[k].after # INT_MIN => out[k].after = out[k].prev
    /\ k > 1 => out[k].prev = out[k - 1].poc

\* the pictures the call has output are different pictures, each of them
\* in the pool and pending before the call; a picture that has been output
\* is not pending, and no two pictures share a decode number
OutputOnce ==
  /\ \A j, k \in DOMAIN hist'.out : hist'.out[j].id = hist'.out[k].id => j = k
  /\ \A k \in DOMAIN hist'.out :
       \E r \in Resident(heap, p_Dpb[0]) : r.pending /\ r.id = hist'.out[k].id
  /\ \A r \in Resident(heap', p_Dpb'[0]) :
       pc' = "running" =>
         /\ r.id <= hist'.arrivals
         /\ \A q \in Resident(heap', p_Dpb'[0]) : q.id = r.id => q = r

\* a picture that insertion or bumping removed from the pool has been output
EvictedAfterOutput ==
  last_call'.op \in {"store_picture_in_dpb", "store_picture_in_dpb/clear_all",
                     "output_one_frame_from_dpb"} =>
    \A r \in Resident(heap, p_Dpb[0]) :
      (r.pending /\ r.id \notin {q.id : q \in Resident(heap', p_Dpb'[0])}) =>
        \E k \in DOMAIN hist'.out : hist'.out[k].id = r.id

\* last_output_poc goes back to its minimum at a full reset only
WatermarkRestartsAtReset ==
  \A l \in Layers :
    (p_Dpb[l].last_output_poc # INT_MIN /\ p_Dpb'[l].last_output_poc = INT_MIN)
      => last_call'.op \in {"init_dpb", "free_dpb", "store_picture_in_dpb/clear_all"}

\* C18: with monotonically assigned picture order counts the pictures
\* leave the DPB in non-decreasing picture order count, each picture is
\* output once, and last_output_poc returns to its minimum only at a full
\* reset (init_dpb, free_dpb, IDR or clear-all marking), after which a
\* picture of a lower picture order count than the last output may follow.
C18_OutputOrder ==
  [][/\ hist'.mono => OutputInOrder(hist'.out)
     /\ OutputOnce
     /\ EvictedAfterOutput
     /\ WatermarkRestartsAtReset]_vars

\* after a full reset a picture has been output whose picture order count
\* is below that of the output before it
C18_Witness ==
  /\ pc = "running"
  /\ hist.mono
  /\ \E k \in DOMAIN hist.out :
       /\ hist.out[k].after = INT_MIN
       /\ hist.out[k].poc < hist.out[k].prev

\* free_dpb has been called on a layer that init_dpb had initialised
FreeDpbOnInitialised ==
  /\ pc = "running"
  /\ last_call'.op = "free_dpb"
  /\ p_Dpb[last_call'.layer].init_done = 1

\* the frame stores of the pool of layer l
FrameStoresOf(l) ==
  SetOfSeq(heap[p_Dpb[l].fs].elems) \ {NULL}

\* the pictures attached to the frame stores of the pool of layer l
AttachedPictures(l) ==
  UNION {{heap[f].frame, heap[f].top_field, heap[f].bottom_field} :
           f \in FrameStoresOf(l)} \ {NULL}

\* the call has freed every block of S, none of them a second time
FreedOnce(S) ==
  \A a \in S : a \notin DOMAIN heap' /\ a \notin hist'.twice

\* C13: after free_dpb on an initialised DPB every frame store of the pool
\* and every StorablePicture attached to one has been freed exactly once,
\* the sentinel picture has been freed and its handle cleared, and
\* init_done is 0.
C13_FreeDpbReleasesPool ==
  [][FreeDpbOnInitialised =>
       /\ FreedOnce(FrameStoresOf(last_call'.layer))
       /\ FreedOnce(AttachedPictures(last_call'.layer))
       /\ FreedOnce({p_Vid.no_reference_picture} \ {NULL})
       /\ p_Vid'.no_reference_picture = NULL
       /\ p_Dpb'[last_call'.layer].init_done = 0]_vars

(***************************************************************************)
(* Capacity as a function of the picture size                              *)
(***************************************************************************)

\* the active parameter set at every other picture size of the input set
OtherPictureSizes ==
  {[ActiveSps EXCEPT !.pic_width_in_mbs_minus1 = w,
                     !.pic_height_in_map_units_minus1 = h,
                     !.frame_mbs_only_flag = fmo] :
     w \in WidthsMinus1, h \in HeightsMinus1, fmo \in {0, 1}}

\* what getDpbSize returns for another parameter set in the current state
CapacityAt(sps) ==
  getDpbSize(Machine(p_Vid, [ub |-> "abort", calloc0 |-> "null", fail |-> 0]), sps).ret

\* C21: for a fixed level code, a single view and no VUI bitstream
\* restriction, getDpbSize is non-increasing in the picture size in
\* macroblocks: a parameter set that differs only in a picture size at
\* least as large gets a capacity at most as large, and one with a picture
\* size at most as large gets a capacity at least as large.
C21_MonotoneInPictureSize ==
  (/\ CalledGetDpbSize
   /\ ~IsMultiview(p_Vid)
   /\ ~VuiRestricted(ActiveSps))
    => \A other \in OtherPictureSizes :
         /\ PicSizeMb(ActiveSps) <= PicSizeMb(other) => retval >= CapacityAt(other)
         /\ PicSizeMb(other) <= PicSizeMb(ActiveSps) => CapacityAt(other) >= retval

C21_Witness ==
  /\ CalledGetDpbSize
  /\ ~IsMultiview(p_Vid)
  /\ ~VuiRestricted(ActiveSps)
  /\ ActiveSps.level_idc = 31
  /\ PicSizeMb(ActiveSps) = 4096
  /\ retval = 4
  /\ \E other \in OtherPictureSizes :
       PicSizeMb(other) = 8192 /\ CapacityAt(other) = 2

(***************************************************************************)
(* Capacity of a multiview profile                                         *)
(***************************************************************************)

NumViews ==
  p_Vid.active_subset_sps.num_views_minus1 + 1

\* b = floor(budget(level) / pic_size_mb)
PerViewBudget ==
  LevelBudget(ActiveSps) \div PicSizeMb(ActiveSps)

\* floor(min(2*b, max(1, RoundLog2(num_views)) * 16) / num_views)
MultiviewCapacity ==
  (IF 2 * PerViewBudget < (IF RoundLog2(NumViews) > 1 THEN RoundLog2(NumViews) ELSE 1) * 16
     THEN 2 * PerViewBudget
     ELSE (IF RoundLog2(NumViews) > 1 THEN RoundLog2(NumViews) ELSE 1) * 16)
    \div NumViews

CalledMultiview ==
  /\ CalledGetDpbSize
  /\ IsMultiview(p_Vid)
  /\ ActiveSps.level_idc \in LevelCodes \ {0}

\* C22: for MVC_HIGH or STEREO_HIGH with num_views coded views and a
\* recognised non-zero level, getDpbSize computes
\* floor(min(2*b, max(1, RoundLog2(num_views)) * 16) / num_views): that is
\* the value returned without a VUI bitstream restriction and the value a
\* VUI override is compared with ("before any VUI override"), and it is not
\* clipped to 16 the way the single-view size is.
C22_MultiviewCapacity ==
  CalledMultiview =>
    /\ ~VuiRestricted(ActiveSps) => retval = MultiviewCapacity
    /\ VuiRestricted(ActiveSps) =>
         (("max_dec_frame_buffering larger than MaxDpbSize" \in stderr)
            <=> ActiveSps.vui_seq_parameters.max_dec_frame_buffering > MultiviewCapacity)

C22_Witness ==
  /\ CalledMultiview
  /\ ~VuiRestricted(ActiveSps)
  /\ NumViews = 3
  /\ PerViewBudget > 16
  /\ retval = 10
  /\ retval # (IF PerViewBudget < 16 THEN PerViewBudget ELSE 16)

(***************************************************************************)
(* Frame store specification: frame stores with any subset of their three  *)
(* pictures attached, released by free_frame_store                         *)
(***************************************************************************)
MaxAttached == 3

FrameStoreFields ==
  {"frame", "top_field", "bottom_field"}

LiveFrameStores ==
  {a \in DOMAIN heap : heap[a].kind = "FrameStore"}

InitFrameStore ==
  /\ InitCommon
  /\ p_Inp = [dpb_plus |-> <<0, 0>>]
  /\ p_Vid = Activate(OpenedVid, LargePictureSPS, <<FREXT_HP, 0>>)

CallAllocFrameStore(ora) ==
  /\ pc = "running"
  /\ LiveFrameStores = {}
  /\ LET a == alloc_frame_store(Machine(p_Vid, ora))
     IN  /\ Commit(a.m)
         /\ retval' = a.ptr
  /\ last_call' = [op |-> "alloc_frame_store", layer |-> 0, type |-> 0, arg |-> 0]

\* f->frame, f->top_field or f->bottom_field = a new picture of the
\* structure that goes with the field
AttachPicture(f, field, ora) ==
  /\ pc = "running"
  /\ f \in LiveFrameStores
  /\ heap[f][field] = NULL
  /\ hist.arrivals < MaxAttached
  /\ LET structure == CASE field = "frame" -> FRAME
                        [] field = "top_field" -> TOP_FIELD
                        [] OTHER -> BOTTOM_FIELD
         s == alloc_storable_picture(Machine(p_Vid, ora), structure,
                                     p_Vid.width, p_Vid.height,
                                     p_Vid.width_cr, p_Vid.height_cr, 1)
     IN  /\ Commit(Then(s.m, LAMBDA x : [x EXCEPT !.heap[f][field] = s.ptr,
                                                    !.hist.arrivals = @ + 1]))
         /\ last_call' = [op |-> "attach", layer |-> 0, type |-> structure, arg |-> f]
  /\ UNCHANGED retval

CallFreeFrameStore(f, ora) ==
  /\ pc = "running"
  /\ Commit(free_frame_store(Machine(p_Vid, ora), f))
  /\ last_call' = [op |-> "free_frame_store", layer |-> 0, type |-> 0, arg |-> f]
  /\ UNCHANGED retval

DoAllocFrameStore ==
  \E ora \in InsertOracles :
    CallAllocFrameStore(ora)

DoAttachPicture ==
  \E f \in LiveFrameStores, field \in FrameStoreFields, ora \in InsertOracles :
    AttachPicture(f, field, ora)

DoFreeFrameStore ==
  \E f \in LiveFrameStores \cup {NULL}, ora \in InsertOracles :
    CallFreeFrameStore(f, ora)

NextFrameStore ==
  \/ DoAllocFrameStore
  \/ DoAttachPicture
  \/ DoFreeFrameStore
  \/ DoAllocPicture
  \/ DoFreePicture

SpecFrameStore ==
  InitFrameStore /\ [][NextFrameStore]_vars

\* the pictures attached to frame store f
AttachedTo(f) ==
  {heap[f][field] : field \in FrameStoreFields} \ {NULL}

\* the blocks of frame store f: its shell, its pictures and their buffers
BlocksOf(f) ==
  {f} \cup AttachedTo(f) \cup UNION {OwnedBuffers(heap, p) : p \in AttachedTo(f)}

FreeFrameStoreOn(f) ==
  /\ pc = "running"
  /\ last_call'.op = "free_frame_store"
  /\ last_call'.arg = f

\* C23: free_frame_store(f) frees each picture attached to f (any subset of
\* frame, top_field, bottom_field) exactly once and the slot shell, leaves
\* every block that does not belong to f live and unchanged, and changes
\* nothing when f is null.
C23_FreeFrameStore ==
  [][/\ \A f \in LiveFrameStores :
          FreeFrameStoreOn(f) =>
            /\ \A a \in BlocksOf(f) : a \notin DOMAIN heap'
            /\ hist'.twice = {}
            /\ ~hist'.double_free /\ ~hist'.use_after_free
            /\ pc' = "running"
            /\ \A b \in (DOMAIN heap) \ BlocksOf(f) :
                 b \in DOMAIN heap' /\ heap'[b] = heap[b]
            /\ DOMAIN heap' \subseteq DOMAIN heap
     /\ FreeFrameStoreOn(NULL) =>
          /\ heap' = heap
          /\ pc' = pc
          /\ p_Vid' = p_Vid
          /\ p_Dpb' = p_Dpb]_vars

\* a frame store has been freed with its pictures while the picture being
\* decoded, which is attached to no frame store, is still there
C23_Witness ==
  /\ last_call.op = "free_frame_store"
  /\ last_call.arg # NULL
  /\ LiveFrameStores = {}
  /\ {a \in DOMAIN heap : heap[a].kind = "StorablePicture"} = {p_Vid.dec_picture}
  /\ OwnedBuffers(heap, p_Vid.dec_picture) \subseteq DOMAIN heap
  /\ OwnedBuffers(heap, p_Vid.dec_picture) # {}

(***************************************************************************)
(* Picture size specification: alloc_storable_picture on picture           *)
(* dimensions that are odd and that are not multiples of a macroblock      *)
(***************************************************************************)
PictureWidths ==
  {16, 24, 40}

PictureHeights ==
  {16, 18, 35}

InitSizes ==
  /\ InitCommon
  /\ p_Inp = [dpb_plus |-> <<0, 0>>]
  /\ \E sps \in PictureSPS, scp \in {0, 1}, w \in PictureWidths, h \in PictureHeights :
       p_Vid = Activate([OpenedVid EXCEPT !.separate_colour_plane_flag = scp,
                                          !.width = w, !.height = h,
                                          !.width_cr = w \div 2, !.height_cr = h \div 2],
                        sps, <<FREXT_HP, 0>>)

NextSizes ==
  \/ DoAllocPicture
  \/ DoFreePicture

SpecSizes ==
  InitSizes /\ [][NextSizes]_vars

AllocatedPicture ==
  /\ last_call.op = "alloc_storable_picture"
  /\ pc = "running"
  /\ p_Vid.dec_picture # NULL

\* C24: alloc_storable_picture sizes a TOP_FIELD or BOTTOM_FIELD picture at
\* half the requested vertical luma and chroma size (integer division by
\* 2) and a FRAME picture at the full size, keeps the horizontal sizes, and
\* records PicSizeInMbs = floor(size_x * size_y / 256) from the size_y it
\* stored.
C24_PictureSizes ==
  AllocatedPicture =>
    LET s == heap[p_Vid.dec_picture]
        field == last_call.arg \in {TOP_FIELD, BOTTOM_FIELD}
    IN  /\ s.structure = last_call.arg
        /\ s.size_x = p_Vid.width
        /\ s.size_x_cr = p_Vid.width_cr
        /\ field => /\ 2 * s.size_y \in {p_Vid.height - 1, p_Vid.height}
                    /\ 2 * s.size_y_cr \in {p_Vid.height_cr - 1, p_Vid.height_cr}
        /\ ~field => /\ s.size_y = p_Vid.height
                     /\ s.size_y_cr = p_Vid.height_cr
        /\ 256 * s.PicSizeInMbs <= s.size_x * s.size_y
        /\ s.size_x * s.size_y < 256 * (s.PicSizeInMbs + 1)

\* a bottom field of a 24 x 35 picture with 12 x 17 chroma: 24 x 17 luma,
\* 12 x 8 chroma, 1 macroblock
C24_Witness ==
  /\ AllocatedPicture
  /\ last_call.arg = BOTTOM_FIELD
  /\ p_Vid.width = 24 /\ p_Vid.height = 35
  /\ heap[p_Vid.dec_picture].size_y = 17
  /\ heap[p_Vid.dec_picture].size_y_cr = 8
  /\ heap[p_Vid.dec_picture].PicSizeInMbs = 1

(***************************************************************************)
(* Reference status of the pictures                                        *)
(***************************************************************************)
LivePictures ==
  {a \in DOMAIN heap : heap[a].kind = "StorablePicture"}

ShortTermReference(p) ==
  heap[p].used_for_reference # 0 /\ heap[p].is_long_term = 0

LongTermReference(p) ==
  heap[p].used_for_reference # 0 /\ heap[p].is_long_term # 0

NoReference(p) ==
  heap[p].used_for_reference = 0 /\ heap[p].is_long_term = 0

\* the sentinel is the picture init_dpb got from
\* alloc_storable_picture(..., is_output = 1) and has not marked since
FreshPictures ==
  {p_Vid.no_reference_picture} \cap LivePictures

\* C25: every live StorablePicture is a short-term reference, a long-term
\* reference or neither (is_long_term is never set without
\* used_for_reference), and a picture as alloc_storable_picture returned it
\* is neither, with non_existing = 0 and is_output = 0 although the
\* is_output argument was 1.
C25_ReferenceStatus ==
  /\ \A p \in LivePictures :
       ShortTermReference(p) \/ LongTermReference(p) \/ NoReference(p)
  /\ \A p \in FreshPictures :
       /\ NoReference(p)
       /\ heap[p].non_existing = 0
       /\ heap[p].is_output = 0

\* the pool holds a long-term and a short-term reference next to the fresh
\* sentinel
C25_Witness ==
  /\ FreshPictures # {}
  /\ \E p \in LivePictures : LongTermReference(p)
  /\ \E p \in LivePictures : ShortTermReference(p)

(***************************************************************************)
(* Pointers after a teardown                                               *)
(***************************************************************************)
\* the pool and index-view pointers of every layer and the two pointers
\* of the decoder that free_dpb releases
TeardownPointers ==
  UNION {{p_Dpb[l].fs, p_Dpb[l].fs_ref, p_Dpb[l].fs_ltref, p_Dpb[l].fs_ilref} :
           l \in Layers}
    \cup {p_Vid.last_out_fs, p_Vid.no_reference_picture}

\* C26: in every state of any sequence of init_dpb and free_dpb calls (two
\* free_dpb in a row and conceal_mode non-zero included) each non-null
\* pointer among fs, fs_ref, fs_ltref, fs_ilref, last_out_fs and
\* no_reference_picture refers to live memory, and no call has freed a
\* block twice.
C26_NoDanglingPointer ==
  /\ \A a \in TeardownPointers \ {NULL} : a \in DOMAIN heap
  /\ ~hist.double_free

(***************************************************************************)
(* The sentinel and what refers to it                                      *)
(***************************************************************************)
\* the step frees the live sentinel picture
SentinelFreed ==
  /\ p_Vid.no_reference_picture \in DOMAIN heap
  /\ p_Vid.no_reference_picture \notin DOMAIN heap'

\* the pictures that are live after the step and point at picture s
RefersTo(s) ==
  {p \in DOMAIN heap' :
     /\ heap'[p].kind = "StorablePicture"
     /\ s \in {heap'[p].frame, heap'[p].top_field, heap'[p].bottom_field}}

\* C27: whenever free_dpb, called directly or by init_dpb on an initialised
\* DPB, frees the sentinel, no live StorablePicture (the picture being
\* decoded included) has a frame, top_field or bottom_field pointer to it
\* and no other DPB layer of the decoder is initialised.
C27_SentinelNotFreedWhileReferenced ==
  [][SentinelFreed =>
       /\ RefersTo(p_Vid.no_reference_picture) = {}
       /\ \A l \in Layers \ {last_call'.layer} : p_Dpb'[l].init_done = 0]_vars

(***************************************************************************)
(* Pool size after init_dpb                                                *)
(***************************************************************************)
\* C28: whenever init_dpb completes, size = getDpbSize + dpb_plus is at
\* least 1, for every configured DPBPLUS0 / DPBPLUS1 and every capacity
\* getDpbSize can return.
C28_SizeAtLeastOne ==
  (/\ CalledInitDpb
   /\ pc = "running"
   /\ LastDpb.init_done = 1)
    => LastDpb.size >= 1

(***************************************************************************)
(* Frame-size related global buffers of a layer                            *)
(*   p_Vid.p_EncodePar[l]     : the coding parameters cps of layer l       *)
(*   p_Vid.global_init_done[l]: the layer's buffers have been allocated    *)
(* A buffer is a heap block that records the layer it was allocated for    *)
(* and the number of the init_global_buffers call that allocated it.       *)
(***************************************************************************)
MaxBufferInits == 3

\* FrameSizeInMbs of the parameter sets of the buffer specification
BufferFrameSize == 4

\* calloc(1, sizeof(CodingParameters)) in alloc_video_params
ZeroCps ==
  [separate_colour_plane_flag |-> 0, FrameSizeInMbs |-> 0, oldFrameSizeInMbs |-> 0,
   mb_data |-> NULL, mb_data_JV |-> [i \in 1..MAX_PLANE |-> NULL],
   intra_block |-> NULL, intra_block_JV |-> [i \in 1..MAX_PLANE |-> NULL],
   PicPos |-> NULL, nz_coeff |-> NULL]

\* cps->field = calloc(n, size) (plane 0) or cps->field[plane - 1] = ...,
\* followed by the test for NULL
cps_calloc(m, l, field, plane, n, where) ==
  Bind(Alloc(m, [kind |-> "buf", what |-> field, rows |-> n, cols |-> 1,
                 layer |-> l, init |-> m.hist.arrivals]), LAMBDA a :
    Then(IF plane = 0
           THEN [a.m EXCEPT !.vid.p_EncodePar[l][field] = a.ptr]
           ELSE [a.m EXCEPT !.vid.p_EncodePar[l][field][plane] = a.ptr],
         LAMBDA x : IF a.ptr = NULL THEN no_mem_exit(x, where) ELSE x))

\* the loop over the colour planes that allocates cps->field[i]
cps_calloc_JV(m, l, field, where) ==
  Then(Then(Then(m,
    LAMBDA x : cps_calloc(x, l, field, 1, x.vid.p_EncodePar[l].FrameSizeInMbs, where)),
    LAMBDA x : cps_calloc(x, l, field, 2, x.vid.p_EncodePar[l].FrameSizeInMbs, where)),
    LAMBDA x : cps_calloc(x, l, field, 3, x.vid.p_EncodePar[l].FrameSizeInMbs, where))

\* free(cps->field) or free(cps->field[plane - 1]), and the pointer = NULL
cps_free(m, l, field, plane) ==
  IF plane = 0
    THEN [free(m, m.vid.p_EncodePar[l][field])
            EXCEPT !.vid.p_EncodePar[l][field] = NULL]
    ELSE [free(m, m.vid.p_EncodePar[l][field][plane])
            EXCEPT !.vid.p_EncodePar[l][field][plane] = NULL]

\* the body of the loop over the colour planes in free_layer_buffers
free_layer_plane(m, l, plane) ==
  Then(cps_free(m, l, "mb_data_JV", plane),
    LAMBDA x : cps_free(x, l, "intra_block_JV", plane))

\* free_layer_buffers(p_Vid, layer_id)
free_layer_buffers(m, l) ==
  IF m.vid.global_init_done[l] = 0 THEN m
  ELSE
    Then(Then(Then(Then(m,
      LAMBDA x : IF x.vid.p_EncodePar[l].nz_coeff # NULL
                   THEN cps_free(x, l, "nz_coeff", 0) ELSE x),
      LAMBDA x : IF x.vid.p_EncodePar[l].separate_colour_plane_flag # 0
                   THEN Then(Then(free_layer_plane(x, l, 1),
                          LAMBDA y : free_layer_plane(y, l, 2)),
                          LAMBDA y : free_layer_plane(y, l, 3))
                   ELSE Then(IF x.vid.p_EncodePar[l].mb_data # NULL
                               THEN cps_free(x, l, "mb_data", 0) ELSE x,
                          LAMBDA y : IF y.vid.p_EncodePar[l].intra_block # NULL
                                       THEN cps_free(y, l, "intra_block", 0) ELSE y)),
      LAMBDA x : IF x.vid.p_EncodePar[l].PicPos # NULL
                   THEN cps_free(x, l, "PicPos", 0) ELSE x),
      LAMBDA x : [x EXCEPT !.vid.global_init_done[l] = 0])

\* the allocation of mb_data / mb_data_JV or intra_block / intra_block_JV
init_plane_buffers(m, l, field, field_JV) ==
  IF m.vid.p_EncodePar[l].separate_colour_plane_flag # 0
    THEN Then(cps_calloc_JV(m, l, field_JV, field_JV),
           LAMBDA x : [x EXCEPT !.vid.p_EncodePar[l][field] = NULL])
    ELSE cps_calloc(m, l, field, 0, m.vid.p_EncodePar[l].FrameSizeInMbs, field)

\* init_global_buffers(p_Vid, layer_id)
init_global_buffers(m, l) ==
  Then(Then(Then(Then(Then(Then(m,
    LAMBDA x : IF x.vid.global_init_done[l] # 0 THEN free_layer_buffers(x, l) ELSE x),
    LAMBDA x : init_plane_buffers(x, l, "mb_data", "mb_data_JV")),
    LAMBDA x : init_plane_buffers(x, l, "intra_block", "intra_block_JV")),
    LAMBDA x : cps_calloc(x, l, "PicPos", 0,
                          x.vid.p_EncodePar[l].FrameSizeInMbs + 1, "PicPos")),
    LAMBDA x : cps_calloc(x, l, "nz_coeff", 0,
                          x.vid.p_EncodePar[l].FrameSizeInMbs, "nz_coeff")),
    LAMBDA x : [x EXCEPT !.vid.p_EncodePar[l].oldFrameSizeInMbs =
                            x.vid.p_EncodePar[l].FrameSizeInMbs,
                         !.vid.global_init_done[l] = 1])

\* the coding parameters of the layer as the activation of a parameter
\* set leaves them before it calls init_global_buffers
set_coding_par(m, l, scp) ==
  [m EXCEPT !.vid.p_EncodePar[l].separate_colour_plane_flag = scp,
            !.vid.p_EncodePar[l].FrameSizeInMbs = BufferFrameSize,
            !.hist.arrivals = @ + 1]

InitBuffers ==
  /\ InitCommon
  /\ p_Inp = [dpb_plus |-> <<0, 0>>]
  /\ p_Vid = [f \in DOMAIN OpenedVid \cup {"p_EncodePar", "global_init_done"} |->
                CASE f = "p_EncodePar" -> [l \in Layers |-> ZeroCps]
                  [] f = "global_init_done" -> [l \in Layers |-> 0]
                  [] OTHER -> OpenedVid[f]]

CallInitGlobalBuffers(l, scp, ora) ==
  /\ pc = "running"
  /\ hist.arrivals < MaxBufferInits
  /\ Commit(init_global_buffers(set_coding_par(Machine(p_Vid, ora), l, scp), l))
  /\ last_call' = [op |-> "init_global_buffers", layer |-> l, type |-> scp, arg |-> 0]
  /\ UNCHANGED retval

CallFreeLayerBuffers(l, ora) ==
  /\ pc = "running"
  /\ Commit(free_layer_buffers(Machine(p_Vid, ora), l))
  /\ last_call' = [op |-> "free_layer_buffers", layer |-> l,
                   type |-> p_Vid.global_init_done[l], arg |-> 0]
  /\ UNCHANGED retval

DoInitGlobalBuffers ==
  \E l \in Layers, scp \in {0, 1}, ora \in InsertOracles :
    CallInitGlobalBuffers(l, scp, ora)

DoFreeLayerBuffers ==
  \E l \in Layers, ora \in InsertOracles :
    CallFreeLayerBuffers(l, ora)

NextBuffers ==
  \/ DoInitGlobalBuffers
  \/ DoFreeLayerBuffers

SpecBuffers ==
  InitBuffers /\ [][NextBuffers]_vars

\* the live buffers that were allocated for layer l
BuffersOf(h, l) ==
  {a \in DOMAIN h : h[a].kind = "buf" /\ h[a].layer = l}

\* the layer's macroblock, intra-block, PicPos and nz_coeff pointers, as
\* its separate_colour_plane_flag selects them
CpsPointers(cps) ==
  (IF cps.separate_colour_plane_flag # 0
     THEN SetOfSeq(cps.mb_data_JV) \cup SetOfSeq(cps.intra_block_JV)
     ELSE {cps.mb_data, cps.intra_block})
    \cup {cps.PicPos, cps.nz_coeff}

LayerAllocated(h, cps) ==
  \A a \in CpsPointers(cps) : a # NULL /\ a \in DOMAIN h

\* C29: for each layer, after any sequence of init_global_buffers and
\* free_layer_buffers calls, with separate_colour_plane_flag changing
\* between them, global_init_done is 1 exactly when the layer's macroblock,
\* intra-block, PicPos and nz_coeff buffers are allocated; after a call of
\* init_global_buffers the buffers allocated for the layer are those it has
\* just allocated and no buffer of an earlier init; and free_layer_buffers
\* on an uninitialised layer changes nothing.
C29_GlobalBuffers ==
  [][/\ \A l \in Layers :
          (p_Vid'.global_init_done[l] = 1)
            <=> LayerAllocated(heap', p_Vid'.p_EncodePar[l])
     /\ (last_call'.op = "init_global_buffers" /\ pc' = "running")
          => /\ BuffersOf(heap', last_call'.layer)
                  = CpsPointers(p_Vid'.p_EncodePar[last_call'.layer])
             /\ \A a \in BuffersOf(heap', last_call'.layer) :
                  heap'[a].init = hist'.arrivals
     /\ (last_call'.op = "free_layer_buffers" /\ last_call'.type = 0)
          => (p_Vid' = p_Vid /\ heap' = heap /\ pc' = pc)]_vars

(***************************************************************************)
(* Quantiser update of a macroblock: read_delta_quant                      *)
(*   p_Vid.bitdepth_luma_qp_scale : 6 * (luma bit depth - 8)               *)
(*   p_Vid.currSlice.qp           : the quantiser of the slice             *)
(*   p_Vid.currMB.delta_quant     : mb_qp_delta of the current macroblock  *)
(***************************************************************************)
MaxBitDepthSteps == 2

\* bitdepth_luma_qp_scale for luma bit depths 8, 9, ...
QpScales ==
  {6 * k : k \in 0..MaxBitDepthSteps}

\* values readSyntaxElement can leave in currSE->value1: in range, just
\* outside the range of each scale, and outside 16 bits
DecodedDeltas ==
  {-98309, -32769, -32768, -100, -33, -32, -30, -29, -27, -26, -1, 0, 1,
   25, 26, 28, 29, 31, 32, 100, 32767, 32768, 65541}

\* the conversion (short) v of an int
to_short(v) ==
  ((v + 32768) % 65536) - 32768

\* the quotient a / b of C for b > 0
c_div(a, b) ==
  IF a >= 0 THEN a \div b ELSE -((-a) \div b)

\* the remainder a % b of C for b > 0
c_rem(a, b) ==
  a - b * c_div(a, b)

iClip3(low, high, x) ==
  imin(imax(x, low), high)

\* a read_delta_quant that takes mb_qp_delta as it was read
read_delta_quant_unclipped(m, value1) ==
  Then(Then(m,
    LAMBDA x : [x EXCEPT !.vid.currMB.delta_quant = to_short(value1)]),
    LAMBDA x : [x EXCEPT !.vid.currSlice.qp =
                  c_rem(x.vid.currSlice.qp + x.vid.currMB.delta_quant + 52
                          + 2 * x.vid.bitdepth_luma_qp_scale,
                        52 + x.vid.bitdepth_luma_qp_scale)
                    - x.vid.bitdepth_luma_qp_scale])

\* read_delta_quant, value1 being what dP->readSyntaxElement has read; the
\* line it prints for a value out of range is kept with the messages of
\* the call
read_delta_quant(m, value1) ==
  Then(Then(Then(m,
    LAMBDA x : [x EXCEPT !.vid.currMB.delta_quant = to_short(value1)]),
    LAMBDA x :
      IF x.vid.currMB.delta_quant < -(26 + c_div(x.vid.bitdepth_luma_qp_scale, 2))
           \/ x.vid.currMB.delta_quant > 25 + c_div(x.vid.bitdepth_luma_qp_scale, 2)
        THEN [x EXCEPT !.err = @ \cup {"mb_qp_delta is out of range"},
                       !.vid.currMB.delta_quant =
                          iClip3(-(26 + c_div(x.vid.bitdepth_luma_qp_scale, 2)),
                                 25 + c_div(x.vid.bitdepth_luma_qp_scale, 2),
                                 x.vid.currMB.delta_quant)]
        ELSE x),
    LAMBDA x : [x EXCEPT !.vid.currSlice.qp =
                  c_rem(x.vid.currSlice.qp + x.vid.currMB.delta_quant + 52
                          + 2 * x.vid.bitdepth_luma_qp_scale,
                        52 + x.vid.bitdepth_luma_qp_scale)
                    - x.vid.bitdepth_luma_qp_scale])

\* a macroblock of a slice whose quantiser is in [-scale, 51]
InitQuant ==
  /\ InitCommon
  /\ p_Inp = [dpb_plus |-> <<0, 0>>]
  /\ \E s \in QpScales : \E qp \in (-s)..51 :
       p_Vid = [f \in DOMAIN OpenedVid
                        \cup {"bitdepth_luma_qp_scale", "currSlice", "currMB"} |->
                  CASE f = "bitdepth_luma_qp_scale" -> s
                    [] f = "currSlice" -> [qp |-> qp]
                    [] f = "currMB" -> [delta_quant |-> 0]
                    [] OTHER -> OpenedVid[f]]

CallReadDeltaQuant(value1, ora) ==
  /\ pc = "running"
  /\ Commit(read_delta_quant(Machine(p_Vid, ora), value1))
  /\ last_call' = [op |-> "read_delta_quant", layer |-> 0,
                   type |-> p_Vid.currSlice.qp, arg |-> value1]
  /\ UNCHANGED retval

NextQuant ==
  \E value1 \in DecodedDeltas, ora \in InsertOracles :
    CallReadDeltaQuant(value1, ora)

SpecQuant ==
  InitQuant /\ [][NextQuant]_vars

CalledReadDeltaQuant ==
  last_call.op = "read_delta_quant"

\* C30: after read_delta_quant, whatever mb_qp_delta value was decoded,
\* delta_quant lies in [-(26 + s/2), 25 + s/2] and the slice qp in
\* [-s, 51], s = bitdepth_luma_qp_scale, the qp before the call having been
\* in [-s, 51]; a value outside the range is not rejected: decoding goes
\* on, with a 16-bit value above the range replaced by the upper and one
\* below it by the lower limit, and a value in the range kept.
C30_DeltaQuantRange ==
  CalledReadDeltaQuant =>
    LET s == p_Vid.bitdepth_luma_qp_scale
        half == IF s % 2 = 0 THEN s \div 2 ELSE (s - 1) \div 2
        dq == p_Vid.currMB.delta_quant
        v == last_call.arg
    IN  /\ last_call.type \in (-s)..51
        /\ dq \in (-(26 + half))..(25 + half)
        /\ p_Vid.currSlice.qp \in (-s)..51
        /\ pc = "running"
        /\ (v \in (-32768)..32767 /\ v > 25 + half) => dq = 25 + half
        /\ (v \in (-32768)..32767 /\ v < -(26 + half)) => dq = -(26 + half)
        /\ v \in (-(26 + half))..(25 + half) => dq = v

\* mb_qp_delta = 32 at bit depth 9 is replaced by 28 and takes the qp from
\* 51 round to 21
C30_Witness ==
  /\ CalledReadDeltaQuant
  /\ p_Vid.bitdepth_luma_qp_scale = 6
  /\ last_call.arg = 32
  /\ last_call.type = 51
  /\ p_Vid.currMB.delta_quant = 28
  /\ p_Vid.currSlice.qp = 21
  /\ "mb_qp_delta is out of range" \in stderr

====
